---- MODULE Spec2Model ----
(***************************************************************************)
(* Model of the extraction-and-fingerprint core of orden_compra_app:       *)
(*   src/orden_compra_app/src/extractor_oc.py  (page and table parsing)    *)
(*   src/orden_compra_app/src/hash_oc.py       (calcular_hash_oc)          *)
(*                                                                         *)
(* Text is a sequence of one-character strings; a cell is a text or None.  *)
(* A float is a decimal n * 10^-e, or NaN.  Binary floating-point error is *)
(* not modelled: arithmetic is exact on decimals and rounding is           *)
(* round-half-even on the decimal value.                                   *)
(***************************************************************************)
EXTENDS Integers, Sequences, FiniteSets, TLC

\* ------------------------------------------------------------------ text

\* Python's None.  The token "None" is not a character, so no text equals it.
None == <<"None">>

Digitos == <<"0", "1", "2", "3", "4", "5", "6", "7", "8", "9">>

Minusculas ==
    <<"a", "b", "c", "d", "e", "f", "g", "h", "i", "j", "k", "l", "m",
      "n", "o", "p", "q", "r", "s", "t", "u", "v", "w", "x", "y", "z">>

Mayusculas ==
    <<"A", "B", "C", "D", "E", "F", "G", "H", "I", "J", "K", "L", "M",
      "N", "O", "P", "Q", "R", "S", "T", "U", "V", "W", "X", "Y", "Z">>

\* The characters of the model in code-point order (Python compares str by
\* code point).
Alfabeto ==
    <<"\n", " ", "$", "%", ",", "-", ".", "/">> \o Digitos \o <<":">>
        \o Mayusculas \o Minusculas \o <<"|">>

Rango(s) == {s[k] : k \in 1..Len(s)}

Pos(s, c) == CHOOSE k \in 1..Len(s) : s[k] = c /\ \A j \in 1..(k - 1) : s[j] # c

Ord(c) == Pos(Alfabeto, c)

EsDigito(c) == c \in Rango(Digitos)

DigitVal(c) == Pos(Digitos, c) - 1

EsEspacio(c) == c \in {" ", "\n"}

\* str.upper() on one character
UpperChar(c) == IF c \in Rango(Minusculas) THEN Mayusculas[Pos(Minusculas, c)] ELSE c

\* str.upper()
Upper(t) == [k \in 1..Len(t) |-> UpperChar(t[k])]

RECURSIVE LStrip(_)
LStrip(t) == IF t # <<>> /\ EsEspacio(Head(t)) THEN LStrip(Tail(t)) ELSE t

RECURSIVE RStrip(_)
RStrip(t) ==
    IF t # <<>> /\ EsEspacio(t[Len(t)]) THEN RStrip(SubSeq(t, 1, Len(t) - 1)) ELSE t

\* str.strip()
Strip(t) == RStrip(LStrip(t))

\* str.replace(c, "") for a one-character c
Quitar(t, c) == SelectSeq(t, LAMBDA x : x # c)

\* str.isdigit()
IsDigit(t) == t # <<>> /\ \A k \in 1..Len(t) : EsDigito(t[k])

\* k in t  (substring test)
Contiene(t, k) ==
    \E p \in 0..(Len(t) - Len(k)) : SubSeq(t, p + 1, p + Len(k)) = k

\* Truthiness of a cell: None and "" are falsy.
Truthy(c) == c # None /\ c # <<>>

\* str(c) of a cell: the text itself, "None" for None.
Str(c) == IF c = None THEN <<"N", "o", "n", "e">> ELSE c

\* t.split(c) for a separator of one character
RECURSIVE Split(_, _)
Split(t, c) ==
    IF c \notin Rango(t) THEN <<t>>
    ELSE <<SubSeq(t, 1, Pos(t, c) - 1)>> \o Split(SubSeq(t, Pos(t, c) + 1, Len(t)), c)

\* sep.join(parts)
RECURSIVE Join(_, _)
Join(parts, sep) ==
    IF parts = <<>> THEN <<>>
    ELSE IF Len(parts) = 1 THEN parts[1]
    ELSE parts[1] \o sep \o Join(Tail(parts), sep)

\* ---------------------------------------------------------------- floats

RECURSIVE Exp10(_)
Exp10(k) == IF k = 0 THEN 1 ELSE 10 * Exp10(k - 1)

\* The decimal n * 10^-e
Dec(n, e) == [nan |-> FALSE, n |-> n, e |-> e]

NaN == [nan |-> TRUE, n |-> 0, e |-> 0]

Cero == Dec(0, 0)

RECURSIVE DigitsVal(_)
DigitsVal(t) ==
    IF t = <<>> THEN 0
    ELSE DigitsVal(SubSeq(t, 1, Len(t) - 1)) * 10 + DigitVal(t[Len(t)])

\* The literals float() accepts among the texts of the model: "nan" in any
\* case, or digits with at most one "." and at least one digit, with
\* surrounding whitespace.  (Signs, exponents, "inf" and "_" are outside the
\* cell alphabet of the model, and no cell of the grids below reads "nan":
\* a product row whose extended amount or percentage is the literal "nan"
\* gets a NaN line total and is removed by dropna.)
FloatOk(t) ==
    LET s == Strip(t)
        d == Quitar(s, ".")
    IN  \/ Upper(s) = <<"N", "A", "N">>
        \/ /\ IsDigit(d)
           /\ Len(s) - Len(d) <= 1

\* float(t) for a literal that FloatOk accepts
Float(t) ==
    LET s == Strip(t)
    IN  IF Upper(s) = <<"N", "A", "N">> THEN NaN
        ELSE IF "." \in Rango(s)
             THEN Dec(DigitsVal(Quitar(s, ".")), Len(s) - Pos(s, "."))
             ELSE Dec(DigitsVal(s), 0)

\* n / d rounded to the nearest integer, ties to even (n >= 0, d > 0)
RoundHalfEven(n, d) ==
    LET q == n \div d
        r == n % d
    IN  IF 2 * r < d THEN q
        ELSE IF 2 * r > d THEN q + 1
        ELSE IF q % 2 = 0 THEN q ELSE q + 1

\* round(x, k): the result always has exponent k
Round(x, k) ==
    IF x.nan THEN NaN
    ELSE IF x.e <= k THEN Dec(x.n * Exp10(k - x.e), k)
    ELSE Dec(RoundHalfEven(x.n, Exp10(x.e - k)), k)

\* The same decimal with no trailing zero in its fraction
RECURSIVE Norm(_)
Norm(x) == IF x.e > 0 /\ x.n % 10 = 0 THEN Norm(Dec(x.n \div 10, x.e - 1)) ELSE x

\* x * y
Mul(x, y) ==
    IF x.nan \/ y.nan THEN NaN
    ELSE Dec(Norm(x).n * Norm(y).n, Norm(x).e + Norm(y).e)

\* x / 100
Div100(x) == IF x.nan THEN NaN ELSE Dec(x.n, x.e + 2)

\* x + y and x - y
Alinear(x, e) == x.n * Exp10(e - x.e)

MaxE(x, y) == IF x.e >= y.e THEN x.e ELSE y.e

Add(x, y) ==
    IF x.nan \/ y.nan THEN NaN
    ELSE Dec(Alinear(x, MaxE(x, y)) + Alinear(y, MaxE(x, y)), MaxE(x, y))

Sub(x, y) ==
    IF x.nan \/ y.nan THEN NaN
    ELSE Dec(Alinear(x, MaxE(x, y)) - Alinear(y, MaxE(x, y)), MaxE(x, y))

\* ------------------------------------------- procesar_tabla_productos

\* CONFIG["orden_header"]
OrdenHeader == <<"I", "t", "m">>

\* CONFIG["decimales"]
Decimales == 3

\* The footer keywords of the end-of-table test, as the source lists them
\* (the mixed-case "IMpto" is compared with an upper-cased cell).
PalabrasFin ==
    << <<"S", "U", "B", "T", "O", "T", "A", "L">>,
       <<"T", "O", "T", "A", "L">>,
       <<"I", "M", "P", "U", "E", "S", "T", "O">>,
       <<"I", "M", "p", "t", "o">>,
       <<"A", "V", "I", "S", "O">>,
       <<"F", "I", "R", "M", "A">> >>

\* row[k] of a 0-based index k; None when the row is too short
Celda(row, k) == IF Len(row) > k THEN row[k + 1] ELSE None

\* any(row)
AnyRow(row) == \E k \in 1..Len(row) : Truthy(row[k])

\* The row index of the header: the first row whose first cell, trimmed,
\* equals CONFIG["orden_header"]; 0 when there is none (start_idx is None).
\* Rows are numbered from 1.
StartIdx(raw) ==
    LET hits == {k \in 1..Len(raw) :
                    raw[k] # <<>> /\ Strip(Str(raw[k][1])) = OrdenHeader}
    IN  IF hits = {} THEN 0 ELSE CHOOSE k \in hits : \A j \in hits : k <= j

\* itm and codigo of a row (lines 172-173)
Itm(row) == IF Truthy(Celda(row, 0)) THEN Strip(Str(row[1])) ELSE <<>>

Codigo(row) == IF Truthy(Celda(row, 1)) THEN Strip(Str(row[2])) ELSE <<>>

\* "Es fila de producto si tiene Itm numerico y codigo"
EsFilaProducto(row) == IsDigit(Itm(row)) /\ Codigo(row) # <<>>

\* Mutant of FloatOCero: a text that does not parse is kept as NaN
FloatONaN(s) == IF s = <<>> THEN Cero ELSE IF FloatOk(s) THEN Float(s) ELSE NaN

\* float(s) if s else 0.0, with "except: 0.0"
FloatOCero(s) == IF s = <<>> THEN Cero ELSE IF FloatOk(s) THEN Float(s) ELSE Cero

\* Cantidad (column 5) and Precio (column 8)
NumCelda(row, k) ==
    FloatOCero(IF Truthy(Celda(row, k))
               THEN Strip(Quitar(Str(row[k + 1]), ","))
               ELSE <<"0">>)

\* Descuento % (column 10) and Impuesto % (column 11)
PctCelda(row, k) ==
    IF Truthy(Celda(row, k))
    THEN FloatOCero(Strip(Quitar(Quitar(Str(row[k + 1]), "%"), ",")))
    ELSE Cero

\* Unidad (column 6)
UnidadCelda(row) ==
    LET u == IF Truthy(Celda(row, 6)) THEN Strip(Str(row[7])) ELSE <<"U", "N">>
    IN  IF u = <<>> THEN <<"U", "N">> ELSE u

\* Mutant of ImporteCelda: the extended amount is always computed
ImporteCeldaCalculado(row, cantidad, precio) == Mul(cantidad, precio)

\* Mutant of ImporteCelda: an absent or empty cell is computed too
ImporteCeldaVacioCalculado(row, cantidad, precio) ==
    LET s == IF Truthy(Celda(row, 13))
             THEN Strip(Quitar(Str(row[14]), ","))
             ELSE <<>>
    IN  IF s # <<>> /\ FloatOk(s) THEN Float(s) ELSE Mul(cantidad, precio)

\* Importe (column 13): the printed value, cantidad * precio when the text
\* is empty after stripping or does not parse
ImporteCelda(row, cantidad, precio) ==
    LET s == IF Truthy(Celda(row, 13))
             THEN Strip(Quitar(Str(row[14]), ","))
             ELSE <<"0">>
    IN  IF s # <<>> /\ FloatOk(s) THEN Float(s) ELSE Mul(cantidad, precio)

\* The product opened by a product row (lines 181-240)
NuevoProducto(row) ==
    LET cantidad == NumCelda(row, 5)
        precio == NumCelda(row, 8)
    IN  [codigo |-> Codigo(row),
         descripcion |-> IF Truthy(Celda(row, 2)) THEN Strip(Str(row[3])) ELSE <<>>,
         cantidad |-> cantidad,
         unidad |-> UnidadCelda(row),
         precio |-> precio,
         descuento_pct |-> PctCelda(row, 10),
         impuesto_pct |-> PctCelda(row, 11),
         importe |-> ImporteCelda(row, cantidad, precio)]

\* descripcion_extra.replace(".", "").replace(",", "").isdigit()
EsNumerico(t) == IsDigit(Quitar(Quitar(t, "."), ","))

\* The guard of the continuation branch (line 243), without current_product
EsContinuacion(row) ==
    /\ ~IsDigit(Itm(row))
    /\ Truthy(Celda(row, 2))
    /\ Strip(Str(row[3])) # <<>>

\* The end-of-table test (lines 251-252)
EsFinDeTabla(row) ==
    LET primera_celda == Strip(Upper(IF Truthy(row[1]) THEN Str(row[1]) ELSE <<>>))
    IN  \E k \in 1..Len(PalabrasFin) : Contiene(primera_celda, PalabrasFin[k])

\* One pass of the row loop (lines 166-260) over the loop's state
\* st = [productos, current_product, fin]; current_product is <<>> for None
\* and <<p>> for an open product, fin is the break.
ProcesarFila(st, row) ==
    IF ~AnyRow(row) THEN st
    ELSE
      LET s1 ==
            IF EsFilaProducto(row)
            THEN [st EXCEPT !.productos = st.productos \o st.current_product,
                            !.current_product = <<NuevoProducto(row)>>]
            ELSE IF st.current_product # <<>> /\ EsContinuacion(row)
                    /\ ~EsNumerico(Strip(Str(row[3])))
            THEN [st EXCEPT !.current_product[1].descripcion =
                                @ \o <<" ">> \o Strip(Str(row[3]))]
            ELSE st
      IN  IF EsFinDeTabla(row)
          THEN [productos |-> s1.productos \o s1.current_product,
                current_product |-> <<>>,
                fin |-> TRUE]
          ELSE s1

\* The columns of the table's DataFrame (lines 271-295)
ColumnasTabla ==
    {"Codigo Producto", "Descripcion", "Cantidad", "Unidad", "Precio",
     "Descuento %", "Impuesto %", "Importe",
     "Monto Descuento", "Monto Impuesto", "Total por Producto"}

\* Mutant of MontoPct: the percentage is not divided by 100
MontoPctSinDividir(importe, pct) == Round(Mul(importe, pct), Decimales)

\* (Importe * (pct / 100)).round(decimales)
MontoPct(importe, pct) == Round(Mul(importe, Div100(pct)), Decimales)

\* One DataFrame row of a product: numeric columns rounded, derived columns
\* computed (lines 288-295)
FilaDf(p) ==
    LET importe == Round(p.importe, Decimales)
        dpct == Round(p.descuento_pct, Decimales)
        ipct == Round(p.impuesto_pct, Decimales)
        mdesc == MontoPct(importe, dpct)
        mimp == MontoPct(importe, ipct)
    IN  [c \in ColumnasTabla |->
            CASE c = "Codigo Producto" -> p.codigo
              [] c = "Descripcion" -> p.descripcion
              [] c = "Cantidad" -> Round(p.cantidad, Decimales)
              [] c = "Unidad" -> p.unidad
              [] c = "Precio" -> Round(p.precio, Decimales)
              [] c = "Descuento %" -> dpct
              [] c = "Impuesto %" -> ipct
              [] c = "Importe" -> importe
              [] c = "Monto Descuento" -> mdesc
              [] c = "Monto Impuesto" -> mimp
              [] c = "Total por Producto" ->
                    Round(Sub(Add(importe, mimp), mdesc), Decimales)]

\* df.dropna(subset=["Total por Producto"])
DropNa(filas) == SelectSeq(filas, LAMBDA f : ~f["Total por Producto"].nan)

\* Lines 262-300: append the last product, build the DataFrame
CerrarTabla(st) ==
    LET ps == st.productos \o st.current_product
    IN  DropNa([k \in 1..Len(ps) |-> FilaDf(ps[k])])

\* ------------------------------------------------------ calcular_hash_oc
\* (hash_oc.py; sheets_uploader_oc.py lines 22-76 hold the same function)
\*
\* A DataFrame is [es_none, cols, filas]: es_none for Python's None, cols the
\* set of its column names, filas its rows, each a function from cols to a
\* cell (a text, or None for None / NaN).  A float cell is its str() text.

\* str(n) of an int n >= 0
RECURSIVE IntStr(_)
IntStr(n) ==
    IF n < 10 THEN <<Digitos[n + 1]>>
    ELSE IntStr(n \div 10) \o <<Digitos[(n % 10) + 1]>>

\* str(x) of a float x >= 0 rounded to 2 decimals: the shortest repr
FloatStr(x) ==
    LET r == Round(x, 2)
        ent == r.n \div 100
        frac == r.n % 100
    IN  IF x.nan THEN <<"n", "a", "n">>
        ELSE IF frac % 10 = 0 THEN IntStr(ent) \o <<".">> \o IntStr(frac \div 10)
        ELSE IntStr(ent) \o <<".">> \o IntStr(frac \div 10) \o IntStr(frac % 10)

\* f"{x:.2f}"
Format2f(x) ==
    LET r == Round(x, 2)
    IN  IF x.nan THEN <<"n", "a", "n">>
        ELSE IntStr(r.n \div 100) \o <<".">>
                \o IntStr((r.n % 100) \div 10) \o IntStr(r.n % 10)

\* df is None or df.empty
DfVacio(d) == d.es_none \/ d.cols = {} \/ d.filas = <<>>

MetaCols == <<"Numero Orden", "Fecha", "Proveedor", "Total">>

\* One part of the metadata string (lines 39-52)
MetaPart(d, col) ==
    IF col \notin d.cols THEN <<>>
    ELSE LET val == d.filas[1][col]
         IN  IF val = None THEN <<>>
             ELSE IF col = "Total" /\ FloatOk(val) THEN Format2f(Float(val))
             ELSE Strip(val)

\* meta_str (line 53)
MetaStr(d) == Join([k \in 1..Len(MetaCols) |-> MetaPart(d, MetaCols[k])], <<"|">>)

\* Mutant of ColumnasProducto: the extended amount is not hashed
ColumnasProductoSinImporte ==
    <<"Codigo Producto", "Descripcion", "Cantidad", "Unidad", "Precio">>

\* columnas_producto (lines 56-63)
ColumnasProducto ==
    <<"Codigo Producto", "Descripcion", "Cantidad", "Unidad", "Precio", "Importe">>

\* sorted(...) (line 87): the six names in alphabetical order, kept to
\* those of columnas_producto
ColumnasProductoOrdenadas ==
    SelectSeq(<<"Cantidad", "Codigo Producto", "Descripcion", "Importe",
                "Precio", "Unidad">>,
              LAMBDA c : c \in Rango(ColumnasProducto))

ColumnasNumericas == {"Cantidad", "Precio", "Importe"}

\* cols_disponibles, in the order of `orden`
ColsDisponibles(d, orden) == SelectSeq(orden, LAMBDA c : c \in d.cols)

\* fillna("").astype(str).str.strip() of one cell (line 72)
CeldaTexto(c) == IF c = None THEN <<>> ELSE Strip(c)

\* What pd.to_numeric(errors="coerce") reads in a text: "int" for an integer
\* literal, "float" for any other float literal, "nan" for the rest
ClaseNumerica(t) ==
    IF IsDigit(t) THEN "int" ELSE IF FloatOk(t) THEN "float" ELSE "nan"

\* The texts of a numeric column after lines 75-76: to_numeric over the
\* column without commas gives int64 when every value is an integer
\* literal and float64 otherwise; then fillna(0).round(2).astype(str).
NormalizarNumerica(textos) ==
    LET v == [k \in 1..Len(textos) |-> Quitar(textos[k], ",")]
        enteros == \A k \in 1..Len(v) : ClaseNumerica(v[k]) = "int"
    IN  [k \in 1..Len(v) |->
            IF enteros THEN IntStr(DigitsVal(v[k]))
            ELSE IF ClaseNumerica(v[k]) = "nan" \/ Float(v[k]).nan THEN FloatStr(Cero)
            ELSE FloatStr(Float(v[k]))]

\* One column of df_hash (lines 71-78)
ColumnaHash(d, col) ==
    LET textos == [k \in 1..Len(d.filas) |-> CeldaTexto(d.filas[k][col])]
    IN  IF col \in ColumnasNumericas THEN NormalizarNumerica(textos) ELSE textos

\* df_hash before sorting: its rows as functions of the available columns
DfHash(d) ==
    LET cols == {c \in Rango(ColumnasProducto) : c \in d.cols}
    IN  [k \in 1..Len(d.filas) |-> [c \in cols |-> ColumnaHash(d, c)[k]]]

\* a < b on str: lexicographic by code point
RECURSIVE TextoMenor(_, _)
TextoMenor(a, b) ==
    IF b = <<>> THEN FALSE
    ELSE IF a = <<>> THEN TRUE
    ELSE IF Ord(Head(a)) # Ord(Head(b)) THEN Ord(Head(a)) < Ord(Head(b))
    ELSE TextoMenor(Tail(a), Tail(b))

\* sort_values(col): numpy sorts runs of up to 16 elements by insertion, so
\* rows with equal keys keep their input order
RECURSIVE Insertar(_, _, _)
Insertar(s, x, col) ==
    IF s = <<>> THEN <<x>>
    ELSE IF TextoMenor(x[col], s[Len(s)][col])
    THEN Append(Insertar(SubSeq(s, 1, Len(s) - 1), x, col), s[Len(s)])
    ELSE Append(s, x)

RECURSIVE SortValues(_, _)
SortValues(filas, col) ==
    IF filas = <<>> THEN <<>>
    ELSE Insertar(SortValues(SubSeq(filas, 1, Len(filas) - 1), col),
                  filas[Len(filas)], col)

\* Lines 80-83
DfHashOrdenado(d) ==
    IF "Codigo Producto" \in d.cols THEN SortValues(DfHash(d), "Codigo Producto")
    ELSE IF "Descripcion" \in d.cols THEN SortValues(DfHash(d), "Descripcion")
    ELSE DfHash(d)

\* productos_str (lines 85-89)
ProductosStr(d) ==
    LET filas == DfHashOrdenado(d)
        cols == ColsDisponibles(d, ColumnasProductoOrdenadas)
    IN  Join([k \in 1..Len(filas) |->
                 Join([j \in 1..Len(cols) |-> filas[k][cols[j]]], <<"|">>)],
             <<"\n">>)

\* Mutant of Contenido: the two strings without the newline between them
ContenidoSinSeparador(d) == MetaStr(d) \o ProductosStr(d)

\* contenido (line 91)
Contenido(d) == MetaStr(d) \o <<"\n">> \o ProductosStr(d)

\* hashlib.md5(t.encode("utf-8")).hexdigest()[:12], as an injective tag of
\* the digested text: two texts have the same digest only if they are equal
\* (collisions of the truncated MD5 are not modelled).
Md5Hex12(t) == <<"md5[:12]">> \o t

\* "0" * 12
Cero12 == [k \in 1..12 |-> "0"]

\* calcular_hash_oc(df)
CalcularHashOc(d) ==
    IF DfVacio(d) THEN Cero12
    ELSE IF ColsDisponibles(d, ColumnasProducto) = <<>> THEN Md5Hex12(MetaStr(d))
    ELSE Md5Hex12(Contenido(d))

\* ------------------------------------------------------------ re.search
\* The patterns of the source are a run of tokens followed by a capture
\* group.  A token is a character matched without regard to case, a
\* character class, \s+, \s* or an optional character.  In every pattern of
\* the source the character after a repetition cannot match the repetition
\* itself, so matching greedily without backtracking is exact.

Lit(c) == [tipo |-> "lit", cs |-> {UpperChar(c)}]

Clase(cs) == [tipo |-> "lit", cs |-> cs]

EspMas == [tipo |-> "esp+", cs |-> {}]

EspCero == [tipo |-> "esp*", cs |-> {}]

Opc(c) == [tipo |-> "opc", cs |-> {c}]

\* The tokens of a word
Palabra(w) == [k \in 1..Len(w) |-> Lit(w[k])]

\* The first position from p on that does not hold whitespace
RECURSIVE FinEspacios(_, _)
FinEspacios(t, p) ==
    IF p <= Len(t) /\ EsEspacio(t[p]) THEN FinEspacios(t, p + 1) ELSE p

\* The first position from p on that does not hold a digit
RECURSIVE FinDigitos(_, _)
FinDigitos(t, p) ==
    IF p <= Len(t) /\ EsDigito(t[p]) THEN FinDigitos(t, p + 1) ELSE p

\* The position after the tokens matched from position i, 0 without a match
RECURSIVE MatchTokens(_, _, _)
MatchTokens(t, i, toks) ==
    IF toks = <<>> THEN i
    ELSE LET k == Head(toks)
             hay == i <= Len(t)
         IN  CASE k.tipo = "lit" ->
                    IF hay /\ UpperChar(t[i]) \in k.cs
                    THEN MatchTokens(t, i + 1, Tail(toks)) ELSE 0
               [] k.tipo = "esp+" ->
                    IF hay /\ EsEspacio(t[i])
                    THEN MatchTokens(t, FinEspacios(t, i), Tail(toks)) ELSE 0
               [] k.tipo = "esp*" ->
                    MatchTokens(t, FinEspacios(t, i), Tail(toks))
               [] OTHER ->
                    IF hay /\ t[i] \in k.cs
                    THEN MatchTokens(t, i + 1, Tail(toks))
                    ELSE MatchTokens(t, i, Tail(toks))

\* ,\d{3} repeated: the position after the last group that matches at p
RECURSIVE FinGrupos(_, _)
FinGrupos(t, p) ==
    IF /\ p + 3 <= Len(t)
       /\ t[p] = ","
       /\ \A k \in 1..3 : EsDigito(t[p + k])
    THEN FinGrupos(t, p + 4) ELSE p

\* (\d{1,3}(?:,\d{3})*(?:\.\d+)?) at position p: the position after the
\* capture, 0 without a match
FinMonto(t, p) ==
    IF ~(p <= Len(t) /\ EsDigito(t[p])) THEN 0
    ELSE LET d == FinDigitos(t, p)
             g == FinGrupos(t, IF d > p + 3 THEN p + 3 ELSE d)
         IN  IF g + 1 <= Len(t) /\ t[g] = "." /\ EsDigito(t[g + 1])
             THEN FinDigitos(t, g + 1) ELSE g

\* (\d+) at position p: the position after the capture, 0 without a match
FinNumero(t, p) == IF p <= Len(t) /\ EsDigito(t[p]) THEN FinDigitos(t, p) ELSE 0

\* (\d{2}/\d{2}/\d{4}) at position p
FinFecha(t, p) ==
    IF /\ p + 9 <= Len(t)
       /\ \A k \in {0, 1, 3, 4, 6, 7, 8, 9} : EsDigito(t[p + k])
       /\ t[p + 2] = "/"
       /\ t[p + 5] = "/"
    THEN p + 10 ELSE 0

\* The capture group of a pattern: an amount, a number or a date
FinGrupo(t, p, grupo) ==
    CASE grupo = "monto" -> FinMonto(t, p)
      [] grupo = "numero" -> FinNumero(t, p)
      [] OTHER -> FinFecha(t, p)

\* re.search(tokens + group, t): group(1) of the leftmost match, None
\* without a match
Buscar(t, toks, grupo) ==
    LET Inicio(i) == MatchTokens(t, i, toks)
        Hay(i) == Inicio(i) # 0 /\ FinGrupo(t, Inicio(i), grupo) # 0
        M == {i \in 1..Len(t) : Hay(i)}
    IN  IF M = {} THEN None
        ELSE LET i == CHOOSE i \in M : \A j \in M : i <= j
             IN  SubSeq(t, Inicio(i), FinGrupo(t, Inicio(i), grupo) - 1)

\* --------------------------------------------- _extraer_totales_del_texto

\* r"Subtotal\s+"
PatSubtotal == Palabra(<<"S", "u", "b", "t", "o", "t", "a", "l">>) \o <<EspMas>>

\* r"Impto\.?\s+"
PatImpto == Palabra(<<"I", "m", "p", "t", "o">>) \o <<Opc("."), EspMas>>

\* r"T\s+O\s+T\s+A\s+L\s+"
PatTotalEspaciado ==
    <<Lit("T"), EspMas, Lit("O"), EspMas, Lit("T"), EspMas, Lit("A"), EspMas,
      Lit("L"), EspMas>>

\* r"TOTAL\s+"
PatTotal == Palabra(<<"T", "O", "T", "A", "L">>) \o <<EspMas>>

\* float(match.group(1).replace(",", "")) if match, else the default 0.0
MontoDe(m) == IF m = None THEN Cero ELSE Float(Quitar(m, ","))

\* Lines 408-415: the letter-spaced pattern, then the plain one
TotalDelTexto(texto) ==
    IF Buscar(texto, PatTotalEspaciado, "monto") # None
    THEN MontoDe(Buscar(texto, PatTotalEspaciado, "monto"))
    ELSE MontoDe(Buscar(texto, PatTotal, "monto"))

\* _extraer_totales_del_texto(texto)
ExtraerTotalesDelTexto(texto) ==
    [subtotal |-> MontoDe(Buscar(texto, PatSubtotal, "monto")),
     impuesto |-> MontoDe(Buscar(texto, PatImpto, "monto")),
     total |-> TotalDelTexto(texto)]

\* ------------------------------------------------ extraer_datos_generales

\* t.split(k)[0]: the text before the first occurrence of k, t without one
AntesDe(t, k) ==
    LET P == {p \in 0..(Len(t) - Len(k)) : SubSeq(t, p + 1, p + Len(k)) = k}
    IN  IF P = {} THEN t
        ELSE SubSeq(t, 1, CHOOSE p \in P : \A q \in P : p <= q)

\* The least line number of a set, 0 for the empty set
PrimeraLinea(L) == IF L = {} THEN 0 ELSE CHOOSE i \in L : \A j \in L : i <= j

\* Lines 70-79: the supplier is in the line after "Solicitado a:"
ProveedorDe(lineas) ==
    LET i == PrimeraLinea({k \in 1..Len(lineas) :
                              Contiene(lineas[k], <<"S", "o", "l", "i", "c", "i", "t", "a", "d", "o", " ", "a", ":">>)})
    IN  IF i = 0 \/ i + 1 > Len(lineas) THEN None
        ELSE Strip(AntesDe(Strip(lineas[i + 1]), <<"S", "O", "L", "U", "C", "I", "O", "N", "E", "S", " ", "Q", "U", "I", "M", "I", "C", "A", "S">>))

\* Lines 82-91: the supplier's address is the first line with "AV." or "C/"
DireccionDe(lineas) ==
    LET i == PrimeraLinea({k \in 1..Len(lineas) :
                              \/ Contiene(lineas[k], <<"A", "V", ".">>)
                              \/ Contiene(lineas[k], <<"C", "/">>)})
    IN  IF i = 0 THEN None
        ELSE IF Contiene(lineas[i], <<"C", "/", " ", "J", "a", "t", "f", "r", "e", "s">>)
        THEN Strip(AntesDe(lineas[i], <<"C", "/", " ", "J", "a", "t", "f", "r", "e", "s">>))
        ELSE Strip(lineas[i])

\* str(c).strip() if c else None
CeldaONone(row, k) == IF Truthy(Celda(row, k)) THEN Strip(Str(Celda(row, k))) ELSE None

\* Lines 99-107: the row two below the "Codigo Suplidor" row
ConSuplidor(datos, f) ==
    [c \in DOMAIN datos |->
        IF c = "Codigo Suplidor" /\ Len(f) > 0 THEN CeldaONone(f, 0)
        ELSE IF c = "RNC" /\ Len(f) > 3 THEN CeldaONone(f, 3)
        ELSE IF c = "Terminos" /\ Len(f) > 9 THEN CeldaONone(f, 9)
        ELSE datos[c]]

\* Mutant of ConMoneda: the substrings are looked for in the cell as written
ConMonedaSinMayusculas(datos, f) ==
    LET moneda_raw == IF Len(f) > 3 /\ Truthy(Celda(f, 3))
                      THEN Strip(Str(Celda(f, 3))) ELSE <<>>
    IN  IF Len(f) <= 3 THEN datos
        ELSE IF \/ Contiene(moneda_raw, <<"U", "S">>)
                \/ Contiene(moneda_raw, <<"E", "x", "t", "r", "a", "n", "j", "e", "r", "a">>)
        THEN [datos EXCEPT !["Moneda"] = <<"U", "S", "D">>]
        ELSE IF Contiene(moneda_raw, <<"D", "O", "P">>)
        THEN [datos EXCEPT !["Moneda"] = <<"D", "O", "P">>]
        ELSE datos

\* Lines 110-118: the row two below the "Moneda" row
ConMoneda(datos, f) ==
    LET moneda_raw == IF Len(f) > 3 /\ Truthy(Celda(f, 3))
                      THEN Strip(Str(Celda(f, 3))) ELSE <<>>
    IN  IF Len(f) <= 3 THEN datos
        ELSE IF \/ Contiene(Upper(moneda_raw), <<"U", "S", "D">>)
                \/ Contiene(Upper(moneda_raw), <<"U", "S">>)
                \/ Contiene(moneda_raw, <<"E", "x", "t", "r", "a", "n", "j", "e", "r", "a">>)
        THEN [datos EXCEPT !["Moneda"] = <<"U", "S", "D">>]
        ELSE IF Contiene(Upper(moneda_raw), <<"D", "O", "P">>)
        THEN [datos EXCEPT !["Moneda"] = <<"D", "O", "P">>]
        ELSE datos

\* Lines 94-118: row i (1-based) of the grid
DatosDeFila(datos, tabla, i) ==
    LET row == tabla[i]
        hay2 == i + 2 <= Len(tabla)
        d1 == IF (Contiene(Str(row[1]), <<"C", "ó", "d", "i", "g", "o", " ", "S", "u", "p", "l", "i", "d", "o", "r">>)
                    \/ Contiene(Str(row[1]), <<"C", "o", "d", "i", "g", "o", " ", "S", "u", "p", "l", "i", "d", "o", "r">>)) /\ hay2
              THEN ConSuplidor(datos, tabla[i + 2]) ELSE datos
    IN  IF row = <<>> THEN datos
        ELSE IF Contiene(Str(row[1]), <<"M", "o", "n", "e", "d", "a">>) /\ hay2
        THEN ConMoneda(d1, tabla[i + 2]) ELSE d1

RECURSIVE DatosDeTabla(_, _, _)
DatosDeTabla(datos, tabla, i) ==
    IF i > Len(tabla) THEN datos
    ELSE DatosDeTabla(DatosDeFila(datos, tabla, i), tabla, i + 1)

ClavesDatos ==
    {"Proveedor", "Direccion Proveedor", "RNC", "Terminos", "Moneda",
     "Codigo Suplidor"}

\* extraer_datos_generales(tabla_cruda, texto)
ExtraerDatosGenerales(tabla, t) ==
    LET lineas == Split(t, "\n")
        datos == [c \in ClavesDatos |->
                    CASE c = "Proveedor" -> ProveedorDe(lineas)
                      [] c = "Direccion Proveedor" -> DireccionDe(lineas)
                      [] c = "Moneda" -> <<"U", "S", "D">>
                      [] OTHER -> None]
    IN  DatosDeTabla(datos, tabla, 1)

\* ------------------------------------------------- extraer_numero_y_fecha

\* r"N[º°°]\s*Orden\s*[:]?\s*"
PatNumeroOrden ==
    <<Lit("N"), Clase({"º", "°"}), EspCero>> \o Palabra(<<"O", "r", "d", "e", "n">>)
        \o <<EspCero, Opc(":"), EspCero>>

\* r"Fecha\s+"
PatFecha == Palabra(<<"F", "e", "c", "h", "a">>) \o <<EspMas>>

\* extraer_numero_y_fecha(texto)
ExtraerNumeroYFecha(t) ==
    <<Buscar(t, PatNumeroOrden, "numero"), Buscar(t, PatFecha, "fecha")>>

\* -------------------------------------------------------- procesar_pagina

\* A page of pdfplumber: the text extract_text() returns, the grid
\* find_table(...).extract() returns, the grids extract_tables() returns,
\* and which of the three calls raises ("no": none does; "find_table":
\* that one; "extract_tables": that one too; "extract_text")
Pagina(t, g, gs, f) == [texto |-> t, tabla |-> g, tablas |-> gs, falla |-> f]

\* A page none of whose calls raises
Pag(t, g) == Pagina(t, g, <<>>, "no")

\* Lines 327-336: tabla_cruda, from find_table or from the fallback
TablaCruda(p) ==
    IF p.falla = "no" THEN p.tabla
    ELSE IF p.tablas # <<>> THEN p.tablas[1] ELSE <<>>

\* columnas_orden: the columns of the DataFrame of a page
ColumnasOrden ==
    <<"Numero Orden", "Fecha", "Proveedor", "Direccion Proveedor", "RNC",
      "Terminos", "Moneda", "Codigo Suplidor",
      "Codigo Producto", "Descripcion", "Cantidad", "Unidad",
      "Precio", "Descuento %", "Impuesto %", "Importe",
      "Monto Descuento", "Monto Impuesto", "Total por Producto",
      "Subtotal", "Total">>

\* Lines 339-344: datos_generales with the order number and the date
DatosGenerales(tabla, t) ==
    [c \in ClavesDatos \cup {"Numero Orden", "Fecha"} |->
        CASE c = "Numero Orden" -> ExtraerNumeroYFecha(t)[1]
          [] c = "Fecha" -> ExtraerNumeroYFecha(t)[2]
          [] OTHER -> ExtraerDatosGenerales(tabla, t)[c]]

\* Lines 271-295: the columns of the product table, in the frame's order
ColumnasDf ==
    <<"Codigo Producto", "Descripcion", "Cantidad", "Unidad", "Precio",
      "Descuento %", "Impuesto %", "Importe",
      "Monto Descuento", "Monto Impuesto", "Total por Producto">>

\* The keys of datos_generales in insertion order (lines 56-63, 341-344)
ClavesEnOrden ==
    <<"Proveedor", "Direccion Proveedor", "RNC", "Terminos", "Moneda",
      "Codigo Suplidor", "Numero Orden", "Fecha">>

\* df[col] = value: a new column goes last, an existing one keeps its place
ConColumna(cols, col) ==
    IF col \in Rango(cols) THEN cols ELSE Append(cols, col)

RECURSIVE ConColumnasDe(_, _)
ConColumnasDe(cols, nuevas) ==
    IF nuevas = <<>> THEN cols
    ELSE ConColumnasDe(ConColumna(cols, Head(nuevas)), Tail(nuevas))

\* Lines 352-353: the columns after the metadata
ColumnasConMetadatos == ConColumnasDe(ColumnasDf, ClavesEnOrden)

\* Mutant of ColumnasArmadas: the frame is returned without the selection
ColumnasSinSeleccion(cols) ==
    ConColumnasDe(cols, <<"Subtotal", "Monto Impuesto", "Total">>)

\* Lines 357-376: the columns after the totals, a None column for each
\* missing one, and the selection df[columnas_orden]
ColumnasArmadas(cols) ==
    LET todas == ConColumnasDe(ConColumnasDe(cols,
                     <<"Subtotal", "Monto Impuesto", "Total">>), ColumnasOrden)
    IN  SelectSeq(ColumnasOrden, LAMBDA c : c \in Rango(todas))

\* Lines 352-353: df[key] = value for every item of datos_generales
ConMetadatos(filas, datos) ==
    [k \in 1..Len(filas) |->
        [c \in DOMAIN filas[k] \cup DOMAIN datos |->
            IF c \in DOMAIN datos THEN datos[c] ELSE filas[k][c]]]

\* Lines 357-376: the totals on every row, then the 21 columns in order,
\* None in a column the frame does not have
Armar(filas, tot) ==
    [k \in 1..Len(filas) |->
        [c \in Rango(ColumnasOrden) |->
            CASE c = "Subtotal" -> tot.subtotal
              [] c = "Monto Impuesto" -> tot.impuesto
              [] c = "Total" -> tot.total
              [] OTHER -> IF c \in DOMAIN filas[k] THEN filas[k][c] ELSE None]]

\* ------------------------------------------------------- the grids

\* A 14-column row in the layout of the source's comment (line 182):
\* [Itm, Codigo, Descripcion, None, Bodg., Cantidad, Unid., None, Precio,
\*  None, Dto.%, Imp.%, None, Importe]
Fila14(itm, codigo, desc, cant, unid, precio, dto, imp, importe) ==
    <<itm, codigo, desc, None, None, cant, unid, None, precio, None,
      dto, imp, None, importe>>

\* The table header row (first cell "Itm " with a trailing space)
FilaHeader ==
    <<<<"I", "t", "m", " ">>, <<"C", "o", "d", "i", "g", "o">>,
      <<"D", "e", "s", "c", "r", "i", "p", "c", "i", "o", "n">>>>

\* qty 10, price 5.00, discount 10%, tax 0%, printed extended 45.00
FilaWidget ==
    Fila14(<<"1">>, <<"S", "K", "U", "1">>,
           <<"W", "i", "d", "g", "e", "t", " ", "A">>,
           <<"1", "0">>, <<"U", "N">>, <<"5", ".", "0", "0">>,
           <<"1", "0">>, <<"0">>, <<"4", "5", ".", "0", "0">>)

\* thousands separators, no unit, blank discount, tax "18%"
FilaTubo ==
    Fila14(<<"2">>, <<"S", "K", "U", "2">>, <<" ", "T", "u", "b", "o", " ">>,
           <<"1", ",", "0", "0", "0">>, None, <<"2", ".", "5", "0">>,
           <<>>, <<"1", "8", "%">>, <<"2", ",", "5", "0", "0", ".", "0", "0">>)

\* a short row: no description and no numeric cell
FilaCorta == <<<<"3">>, <<"S", "K", "U", "3">>>>

\* unparsable discount and extended amount, tax 0.25%
FilaMala ==
    Fila14(<<"4">>, <<"S", "K", "U", "4">>, <<"T", "a", "p", "a">>,
           <<"3">>, <<"K", "G">>, <<"1", ".", "5">>,
           <<"x">>, <<"0", ".", "2", "5">>, <<"a", "b", "c">>)

\* a wrapped description line
FilaCont == <<None, None, <<" ", "e", "x", "t", "r", "a", " ">>>>

\* a numeric cell in the description column
FilaContNum == <<None, <<>>, <<"1", "2", ".", "5">>>>

\* a numeric first cell without a product code, with description text
FilaNumSinCodigo == <<<<"7">>, None, <<"s", "i", "g", "u", "e">>>>

\* footer rows: one with only the label, one with text in column 2
FilaFin == <<<<"S", "u", "b", "t", "o", "t", "a", "l">>, None, None>>

FilaFinTexto == <<<<"T", "O", "T", "A", "L">>, None, <<"p", "i", "e">>>>

\* a row with no content
FilaVacia == <<None, <<>>, None>>

Plantillas ==
    {FilaHeader, FilaWidget, FilaTubo, FilaCorta, FilaMala, FilaCont,
     FilaContNum, FilaNumSinCodigo, FilaFin, FilaFinTexto, FilaVacia}

\* The longest run of rows drawn freely from the templates
MaxFilas == 3

SeqsHasta(S, n) == UNION {[1..k -> S] : k \in 0..n}

\* The grids: free runs of template rows, alone, after a header row, and
\* after a product row followed by a header row.
Grids ==
    SeqsHasta(Plantillas, MaxFilas)
        \cup {<<FilaHeader>> \o b : b \in SeqsHasta(Plantillas, MaxFilas)}
        \cup {<<FilaWidget, FilaHeader>> \o b : b \in SeqsHasta(Plantillas, MaxFilas - 1)}

\* ---------------------------------------------------------------- state

VARIABLES
    raw_data,         \* the grid handed to procesar_tabla_productos
    pc,               \* where the call is
    idx,              \* the row the loop is at (1-based)
    productos,        \* the products closed so far
    current_product,  \* <<>> (None) or <<the open product>>
    df,               \* the DataFrame returned (its rows)
    log,              \* the warnings and errors logged, as tags
    df_a,             \* the record set of the first extraction
    df_b,             \* the record set of the second extraction
    huella_a,         \* calcular_hash_oc(df_a), <<>> before the call
    huella_b,         \* calcular_hash_oc(df_b), <<>> before the call
    variante,         \* how df_b differs from df_a
    fase,             \* where the comparison of the two fingerprints is
    texto,            \* the text of the page
    totales,          \* the totals read in the text, <<>> before the call
    pagina,           \* the page handed to procesar_pagina: text and grid
    datos_generales,  \* the metadata of the page, <<>> before it is read
    df_pagina,        \* the DataFrame procesar_pagina returns (its rows)
    llamada,          \* 1 in the first call on the page, 2 in the second
    primera,          \* the rows the first call returned
    columnas,         \* the columns of the page's DataFrame, in order
    documento,        \* the PDF handed to procesar_pdf
    num_pagina,       \* the page the loop of procesar_pdf is at, 0 outside it
    resultados,       \* the non-empty DataFrames of the pages so far
    df_pdf,           \* the DataFrame procesar_pdf returns (its rows)
    hoja,             \* the worksheet: its header row and its data rows
    n_llamada,        \* the calls of subir_a_hoja so far
    df_subida,        \* the 'Numero Orden' column of the last frame handed over
    resultado,        \* the dict the last subir_a_hoja returned
    lecturas_ok,      \* every call on the worksheet has succeeded so far
    auto_uploaded,    \* st.session_state["auto_uploaded_orders"]
    notificaciones,   \* the calls of enviar_oc_whatsapp, in order
    corrida,          \* the runs of procesar_y_subir_oc so far
    ultima,           \* what the last run of procesar_y_subir_oc met and did
    whatsapp,         \* WHATSAPP_OC_DISPONIBLE
    sesiones          \* the concurrent calls of subir_a_hoja, by session

tvars == <<raw_data, pc, idx, productos, current_product, df, log>>

hvars == <<df_a, df_b, huella_a, huella_b, variante, fase>>

tvars_sin_pc == <<raw_data, idx, productos, current_product, df, log>>

pvars == <<texto, totales, pagina, datos_generales, df_pagina, llamada, primera,
           columnas>>

dvars == <<documento, num_pagina, resultados, df_pdf>>

svars == <<hoja, n_llamada, df_subida, resultado, lecturas_ok, auto_uploaded,
           notificaciones, corrida, ultima, whatsapp, sesiones>>

vars == <<tvars, hvars, pvars, dvars, svars>>

\* What the table parser leaves alone
fuera_de_tabla == <<hvars, pvars, dvars, svars>>

\* What the fingerprint leaves alone
fuera_de_hash == <<tvars, pvars, dvars, svars>>

\* No record set
DfNone == [es_none |-> TRUE, cols |-> {}, filas |-> <<>>]

\* No table is being parsed
TablaInactiva ==
    /\ raw_data = <<>>
    /\ pc = "inactivo"
    /\ idx = 0
    /\ productos = <<>>
    /\ current_product = <<>>
    /\ df = <<>>
    /\ log = <<>>

\* No page is being parsed
PaginaInactiva ==
    /\ texto = <<>>
    /\ totales = <<>>
    /\ pagina = Pag(None, <<>>)
    /\ datos_generales = <<>>
    /\ df_pagina = <<>>
    /\ llamada = 0
    /\ primera = <<>>
    /\ columnas = <<>>

\* No document is being processed
PdfInactivo ==
    /\ documento = [abre |-> FALSE, pages |-> <<>>]
    /\ num_pagina = 0
    /\ resultados = <<>>
    /\ df_pdf = <<>>

\* No upload and no session
SheetInactivo ==
    /\ hoja = [encabezados |-> "vacia", filas |-> <<>>]
    /\ n_llamada = 0
    /\ df_subida = <<>>
    /\ resultado = <<>>
    /\ lecturas_ok = TRUE
    /\ auto_uploaded = {}
    /\ notificaciones = <<>>
    /\ corrida = 0
    /\ ultima = <<>>
    /\ whatsapp = FALSE
    /\ sesiones = <<>>

\* No fingerprint is being computed
HashInactivo ==
    /\ df_a = DfNone
    /\ df_b = DfNone
    /\ huella_a = <<>>
    /\ huella_b = <<>>
    /\ variante = [tipo |-> "ninguna", fila |-> 0, col |-> ""]
    /\ fase = "inactivo"

\* A call of procesar_tabla_productos on a grid
InitTabla ==
    /\ raw_data \in Grids
    /\ pc = "inicio"
    /\ idx = 0
    /\ productos = <<>>
    /\ current_product = <<>>
    /\ df = <<>>
    /\ log = <<>>
    /\ HashInactivo
    /\ PdfInactivo
    /\ SheetInactivo
    /\ PaginaInactiva

\* Mutant of BuscarHeader: without a header the scan starts at the first row
BuscarHeaderSinRetorno ==
    /\ pc = "inicio"
    /\ productos' = <<>>
    /\ current_product' = <<>>
    /\ idx' = StartIdx(raw_data) + 1
    /\ pc' = "filas"
    /\ UNCHANGED <<raw_data, df, log>>
    /\ UNCHANGED fuera_de_tabla

\* Mutant of BuscarHeader: the list of products is not emptied at the start
BuscarHeaderSinReinicio ==
    /\ pc = "inicio"
    /\ IF StartIdx(raw_data) = 0
       THEN /\ log' = Append(log, "no-header")
            /\ df' = <<>>
            /\ pc' = "fin"
            /\ UNCHANGED <<idx, productos, current_product>>
       ELSE /\ current_product' = <<>>
            /\ idx' = StartIdx(raw_data) + 1
            /\ pc' = "filas"
            /\ UNCHANGED <<df, log, productos>>
    /\ UNCHANGED raw_data
    /\ UNCHANGED fuera_de_tabla

\* Lines 153-163: find the header, return empty without one
BuscarHeader ==
    /\ pc = "inicio"
    /\ IF StartIdx(raw_data) = 0
       THEN /\ log' = Append(log, "no-header")
            /\ df' = <<>>
            /\ pc' = "fin"
            /\ UNCHANGED <<idx, productos, current_product>>
       ELSE /\ productos' = <<>>
            /\ current_product' = <<>>
            /\ idx' = StartIdx(raw_data) + 1
            /\ pc' = "filas"
            /\ UNCHANGED <<df, log>>
    /\ UNCHANGED raw_data
    /\ UNCHANGED fuera_de_tabla

\* Mutant of SiguienteFila: the loop goes on after a footer row
SiguienteFilaSinBreak ==
    /\ pc = "filas"
    /\ IF idx > Len(raw_data)
       THEN /\ pc' = "cierre"
            /\ UNCHANGED <<idx, productos, current_product>>
       ELSE LET st == ProcesarFila([productos |-> productos,
                                    current_product |-> current_product,
                                    fin |-> FALSE], raw_data[idx])
            IN  /\ productos' = st.productos
                /\ current_product' = st.current_product
                /\ idx' = idx + 1
                /\ pc' = "filas"
    /\ UNCHANGED <<raw_data, df, log>>
    /\ UNCHANGED fuera_de_tabla

\* Lines 166-260: one row of the loop, or its end
SiguienteFila ==
    /\ pc = "filas"
    /\ IF idx > Len(raw_data)
       THEN /\ pc' = "cierre"
            /\ UNCHANGED <<idx, productos, current_product>>
       ELSE LET st == ProcesarFila([productos |-> productos,
                                    current_product |-> current_product,
                                    fin |-> FALSE], raw_data[idx])
            IN  /\ productos' = st.productos
                /\ current_product' = st.current_product
                /\ idx' = idx + 1
                /\ pc' = IF st.fin THEN "cierre" ELSE "filas"
    /\ UNCHANGED <<raw_data, df, log>>
    /\ UNCHANGED fuera_de_tabla

\* Lines 262-300: close the last product, build and return the DataFrame
Cierre ==
    /\ pc = "cierre"
    /\ productos' = productos \o current_product
    /\ IF productos' = <<>>
       THEN /\ log' = Append(log, "no-items")
            /\ df' = <<>>
       ELSE /\ df' = CerrarTabla([productos |-> productos,
                                  current_product |-> current_product])
            /\ log' = log
    /\ pc' = "fin"
    /\ UNCHANGED <<raw_data, idx, current_product>>
    /\ UNCHANGED fuera_de_tabla

NextTabla == BuscarHeader \/ SiguienteFila \/ Cierre

SpecTabla == InitTabla /\ [][NextTabla]_vars

\* ------------------------------------------------ claims on the table

\* The rows the claims speak of: those after the header row
FilasTrasHeader(raw) == SubSeq(raw, StartIdx(raw) + 1, Len(raw))

\* A terminator row: its first cell contains a footer keyword
FilaTerminadora(row) == AnyRow(row) /\ EsFinDeTabla(row)

\* The position of the first terminator row, Len + 1 when there is none
PrimerFin(rows) ==
    LET T == {k \in 1..Len(rows) : FilaTerminadora(rows[k])}
    IN  IF T = {} THEN Len(rows) + 1 ELSE CHOOSE k \in T : \A j \in T : k <= j

\* The trimmed text of the description column
TextoDesc(row) == IF Truthy(Celda(row, 2)) THEN Strip(Str(row[3])) ELSE <<>>

\* A continuation row as section 4.2 of the specification classifies rows
\* (each row is one of item-start, terminator, continuation, ignorable):
\* not an item-start, not a terminator, and the description column holds
\* non-empty, non-numeric text.
ContinuacionSegunSpec(row) ==
    /\ ~EsFilaProducto(row)
    /\ ~FilaTerminadora(row)
    /\ TextoDesc(row) # <<>>
    /\ ~EsNumerico(TextoDesc(row))

\* What C1 says the parser returns for a grid with a header: per item-start
\* row before the first terminator, in grid order, its product code and its
\* description cell joined by single spaces with the text of the
\* continuation rows up to the next item-start row.
EsperadoC1(raw) ==
    LET rows == FilasTrasHeader(raw)
        scan == SubSeq(rows, 1, PrimerFin(rows) - 1)
        starts == {k \in 1..Len(scan) : EsFilaProducto(scan[k])}
        nth(i) == CHOOSE k \in starts : Cardinality({j \in starts : j < k}) = i - 1
        sig(k) == IF \E j \in starts : j > k
                  THEN CHOOSE j \in starts : j > k /\ \A m \in starts : m > k => j <= m
                  ELSE Len(scan) + 1
        conts(k) == SelectSeq(SubSeq(scan, k + 1, sig(k) - 1), ContinuacionSegunSpec)
        desc(k) == Join(<<TextoDesc(scan[k])>>
                            \o [j \in 1..Len(conts(k)) |-> TextoDesc(conts(k)[j])],
                        <<" ">>)
    IN  [i \in 1..Cardinality(starts) |-> <<Codigo(scan[nth(i)]), desc(nth(i))>>]

\* The product code and description of each returned row
CodigoYDesc(filas) ==
    [k \in 1..Len(filas) |-> <<filas[k]["Codigo Producto"], filas[k]["Descripcion"]>>]

\* C1 (as claimed): for any grid with a header row, procesar_tabla_productos
\* returns exactly one LineItem per item-start row located after the header
\* and before the first terminator row, in grid order, and each description
\* is the item-start row's description cell followed by the trimmed text of
\* every continuation row that precedes the next item-start row, joined by
\* single spaces.
C1_UnItemPorFilaProducto ==
    (pc = "fin" /\ StartIdx(raw_data) # 0)
        => CodigoYDesc(df) = EsperadoC1(raw_data)

\* x and y are the same number
NumIgual(x, y) ==
    ~x.nan /\ ~y.nan /\ Alinear(x, MaxE(x, y)) = Alinear(y, MaxE(x, y))

Abs(n) == IF n < 0 THEN -n ELSE n

\* m is a * b / 100 to the nearest thousandth (a tie may go either way)
EsMontoRedondeado(m, a, b) ==
    LET x == Norm(a)
        y == Norm(b)
        s == x.e + y.e + 2
        E == IF s > 3 THEN s ELSE 3
    IN  /\ ~m.nan /\ ~a.nan /\ ~b.nan
        /\ m.e = 3
        /\ 2 * Abs(m.n * Exp10(E - 3) - x.n * y.n * Exp10(E - s)) <= Exp10(E - 3)

\* C2: for every LineItem returned by procesar_tabla_productos the discount
\* amount is extended * discount% / 100 rounded to 3 decimals, the tax
\* amount is extended * tax% / 100 rounded to 3 decimals, and the line total
\* is extended + tax amount - discount amount (to 3 decimals).
C2_CamposDerivados ==
    pc = "fin" =>
        \A k \in 1..Len(df) :
            LET r == df[k]
            IN  /\ EsMontoRedondeado(r["Monto Descuento"], r["Importe"], r["Descuento %"])
                /\ EsMontoRedondeado(r["Monto Impuesto"], r["Importe"], r["Impuesto %"])
                /\ r["Total por Producto"].e = 3
                /\ r["Total por Producto"].n =
                       r["Importe"].n + r["Monto Impuesto"].n - r["Monto Descuento"].n

\* A returned table with a discounted line and a taxed line whose tax amount
\* is not a whole number of thousandths before rounding (4.5 * 0.25 / 100)
C2_Testigo ==
    /\ pc = "fin"
    /\ \E k \in 1..Len(df) : df[k]["Monto Descuento"].n > 0
    /\ \E k \in 1..Len(df) :
          /\ df[k]["Importe"] = Dec(4500, 3)
          /\ df[k]["Impuesto %"] = Dec(250, 3)
          /\ df[k]["Monto Impuesto"].n > 0

\* The printed extended amount of a row: column 13 without separators
ImporteImpreso(row) == Strip(Quitar(Str(Celda(row, 13)), ","))

ImporteImpresoParsea(row) ==
    Truthy(Celda(row, 13)) /\ ImporteImpreso(row) # <<>> /\ FloatOk(ImporteImpreso(row))

\* C3: when the printed extended-amount cell (column 13) of an item-start row
\* parses as a number, that value is the LineItem's extended amount even
\* when it differs from quantity * unit price; the row with quantity 10,
\* price 5.00, discount 10%, tax 0% and printed extended 45.00 yields one
\* LineItem with extended 45.00, discount amount 4.5, tax amount 0.0 and
\* line total 40.5.
C3_ImporteImpreso ==
    /\ (pc = "filas" /\ idx - 1 > StartIdx(raw_data)
            /\ EsFilaProducto(raw_data[idx - 1])
            /\ ImporteImpresoParsea(raw_data[idx - 1]))
          => /\ current_product # <<>>
             /\ NumIgual(current_product[1].importe,
                         Float(ImporteImpreso(raw_data[idx - 1])))
    /\ (pc = "fin" /\ raw_data = <<FilaHeader, FilaWidget>>)
          => /\ Len(df) = 1
             /\ df[1]["Importe"] = Dec(45000, 3)
             /\ df[1]["Monto Descuento"] = Dec(4500, 3)
             /\ df[1]["Monto Impuesto"] = Dec(0, 3)
             /\ df[1]["Total por Producto"] = Dec(40500, 3)

\* The scenario's grid parsed: printed 45.00 where quantity * price is 50
C3_Testigo ==
    /\ pc = "fin"
    /\ raw_data = <<FilaHeader, FilaWidget>>
    /\ Len(df) = 1
    /\ ~NumIgual(df[1]["Importe"], Mul(df[1]["Cantidad"], df[1]["Precio"]))

\* No row of the grid has a first cell equal, after trimming, to "Itm"
SinHeader(raw) ==
    \A k \in 1..Len(raw) :
        raw[k] = <<>> \/ Strip(Str(raw[k][1])) # <<"I", "t", "m">>

\* C9: for a grid without a header row, the empty grid included,
\* procesar_tabla_productos returns an empty item sequence with the
\* no-header warning and nothing else: the row loop is never entered.
C9_SinHeaderVacio ==
    SinHeader(raw_data) =>
        /\ pc \in {"inicio", "fin"}
        /\ productos = <<>> /\ current_product = <<>>
        /\ pc = "fin" => (df = <<>> /\ log = <<"no-header">>)

\* A grid with product rows and no header row, parsed
C9_Testigo ==
    /\ pc = "fin"
    /\ SinHeader(raw_data)
    /\ \E k \in 1..Len(raw_data) : EsFilaProducto(raw_data[k])
    /\ df = <<>>

\* ------------------------------------------------- the record sets hashed

\* The order-level fields, the same in every record of a set
CamposOrden ==
    {"Numero Orden", "Fecha", "Proveedor", "Direccion Proveedor", "RNC",
     "Terminos", "Moneda", "Codigo Suplidor", "Subtotal", "Total"}

CamposLinea == Rango(ColumnasOrden) \ CamposOrden

Meta(numero, fecha, proveedor, subtotal, total) ==
    [c \in CamposOrden |->
        CASE c = "Numero Orden" -> numero
          [] c = "Fecha" -> fecha
          [] c = "Proveedor" -> proveedor
          [] c = "Moneda" -> <<"U", "S", "D">>
          [] c = "Subtotal" -> subtotal
          [] c = "Total" -> total
          [] OTHER -> None]

Linea(codigo, desc, cant, unid, precio, dto, imp, importe, mdto, mimp, tot) ==
    [c \in CamposLinea |->
        CASE c = "Codigo Producto" -> codigo
          [] c = "Descripcion" -> desc
          [] c = "Cantidad" -> cant
          [] c = "Unidad" -> unid
          [] c = "Precio" -> precio
          [] c = "Descuento %" -> dto
          [] c = "Impuesto %" -> imp
          [] c = "Importe" -> importe
          [] c = "Monto Descuento" -> mdto
          [] c = "Monto Impuesto" -> mimp
          [] OTHER -> tot]

MetaA == Meta(<<"1", "0", "2", "5">>, <<"0", "1", "/", "0", "2", "/", "2", "0", "2", "4">>, <<" ", "A", "C", "M", "E", " ">>, <<"3", "4", "8", "6", ".", "2">>, <<"4", "1", "1", "3", ".", "7", "2">>)

\* no number, date or supplier found; a total that float() rejects
MetaB == Meta(None, None, None, <<"0", ".", "0">>, <<"1", ",", "0", "0", "0", ".", "0", "0">>)

LineaWidget ==
    Linea(<<"S", "K", "U", "1">>, <<"W", "i", "d", "g", "e", "t", " ", "A">>, <<"1", "0", ".", "0">>, <<"U", "N">>, <<"5", ".", "0">>, <<"1", "0", ".", "0">>, <<"0", ".", "0">>,
          <<"4", "5", ".", "0">>, <<"4", ".", "5">>, <<"0", ".", "0">>, <<"4", "0", ".", "5">>)

LineaTubo ==
    Linea(<<"S", "K", "U", "2">>, <<"T", "u", "b", "o">>, <<"1", "0", "0", "0", ".", "0">>, None, <<"2", ".", "5">>, <<"0", ".", "0">>, <<"1", "8", ".", "0">>,
          <<"2", "5", "0", "0", ".", "0">>, <<"0", ".", "0">>, <<"4", "5", "0", ".", "0">>, <<"2", "9", "5", "0", ".", "0">>)

\* the product code of LineaWidget again, the other fields differing
LineaWidgetB ==
    Linea(<<"S", "K", "U", "1">>, <<"W", "i", "d", "g", "e", "t", " ", "B">>, <<"3", ".", "0">>, <<"K", "G">>, <<"5", ".", "0">>, <<"0", ".", "0">>, <<"0", ".", "0">>,
          <<"1", "5", ".", "0">>, <<"0", ".", "0">>, <<"0", ".", "0">>, <<"1", "5", ".", "0">>)

\* integer literals, a thousands separator, an extended amount missing
LineaCien ==
    Linea(<<"A", "9">>, <<" ", "T", "a", "p", "a">>, <<"1", "0", "0">>, <<"U", "N">>, <<"1", ",", "0", "0", "0", ".", "0", "0">>, <<"0", ".", "0">>, <<"0", ".", "0">>,
          None, <<"0", ".", "0">>, <<"0", ".", "0">>, <<"0", ".", "0">>)

Lineas == {LineaWidget, LineaTubo, LineaWidgetB, LineaCien}

\* Every column; no product code; none of the product columns
ColsTodas == Rango(ColumnasOrden)

ColsSinCodigo == Rango(ColumnasOrden) \ {"Codigo Producto"}

ColsSinProducto == Rango(ColumnasOrden) \ Rango(ColumnasProducto)

\* The metadata and the columns of the record sets
Formas ==
    {<<MetaA, ColsTodas>>, <<MetaB, ColsTodas>>, <<MetaA, ColsSinCodigo>>,
     <<MetaB, ColsSinProducto>>}

\* The most records in a set
MaxRegistros == 2

DfDe(meta, lineas, cols) ==
    [es_none |-> FALSE,
     cols |-> cols,
     filas |-> [k \in 1..Len(lineas) |->
                   [c \in cols |-> IF c \in CamposOrden THEN meta[c]
                                   ELSE lineas[k][c]]]]

\* pd.DataFrame()
DfEmpty == [es_none |-> FALSE, cols |-> {}, filas |-> <<>>]

Dfs ==
    {DfNone, DfEmpty}
        \cup {DfDe(f[1], l, f[2]) :
                f \in Formas, l \in SeqsHasta(Lineas, MaxRegistros) \ {<<>>}}

\* ------------------------------------ two extractions, two fingerprints

\* The number a numeric field's text stands for
EsNumero(t) == t # None /\ FloatOk(Quitar(Strip(t), ","))

ValorNum(t) == Float(Quitar(Strip(t), ","))

\* Texts of numbers in the formats of the extractions compared
LiteralesNumericos ==
    {<<"1", "0", "0">>, <<"1", "0", "0", ".", "0", "0">>, <<" ", "1", "0", "0", " ">>, <<"1", "0", "0", "0">>, <<"1", ",", "0", "0", "0", ".", "0", "0">>, <<"1", "0">>,
     <<"1", "0", ".", "0", "0">>, <<"4", "5", ".", "0", "0">>, <<" ", "2", ".", "5", "0">>, <<"4", "5", ".", "3">>}

\* The values a field is changed to
ValoresNuevos == {<<"4", "5", ".", "3">>, <<"1", ",", "0", "0", "0">>}

\* The monetary and quantity fields of a record
CamposNumericosLinea ==
    {"Cantidad", "Precio", "Descuento %", "Impuesto %", "Importe",
     "Monto Descuento", "Monto Impuesto", "Total por Producto"}

CamposNumericosOrden == {"Subtotal", "Total"}

CamposTextoLinea == {"Codigo Producto", "Descripcion", "Unidad"}

CamposTextoOrden == {"Numero Orden", "Fecha", "Proveedor"}

\* |x - y| > 0.01: more than one unit of the second decimal
DifiereMasDeUnCentimo(x, y) ==
    LET e == IF MaxE(x, y) >= 2 THEN MaxE(x, y) ELSE 2
    IN  Abs(Alinear(x, e) - Alinear(y, e)) > Exp10(e - 2)

\* d with the cell of column c set to t, in row k (k = 0: in every row)
ConCelda(d, k, c, t) ==
    [d EXCEPT !.filas =
        [j \in 1..Len(d.filas) |->
            IF k = 0 \/ j = k THEN [d.filas[j] EXCEPT ![c] = t] ELSE d.filas[j]]]

Permutaciones(n) ==
    {f \in [1..n -> 1..n] : \A i, j \in 1..n : f[i] = f[j] => i = j}

Variante(tipo, fila, col) == [tipo |-> tipo, fila |-> fila, col |-> col]

InitHash ==
    /\ df_a \in Dfs
    /\ df_b = DfNone
    /\ huella_a = <<>>
    /\ huella_b = <<>>
    /\ variante = Variante("ninguna", 0, "")
    /\ fase = "a"
    /\ TablaInactiva
    /\ PaginaInactiva
    /\ PdfInactivo
    /\ SheetInactivo

\* The fingerprint of the first extraction
HashA ==
    /\ fase = "a"
    /\ huella_a' = CalcularHashOc(df_a)
    /\ fase' = "variar"
    /\ UNCHANGED <<df_a, df_b, huella_b, variante>>
    /\ UNCHANGED fuera_de_hash

\* The second extraction yields the same records in another order
Permutar ==
    /\ fase = "variar"
    /\ \E f \in Permutaciones(Len(df_a.filas)) :
        /\ \E k \in 1..Len(df_a.filas) : f[k] # k
        /\ df_b' = [df_a EXCEPT !.filas = [k \in 1..Len(df_a.filas) |-> df_a.filas[f[k]]]]
    /\ variante' = Variante("permutacion", 0, "")
    /\ fase' = "b"
    /\ UNCHANGED <<df_a, huella_a, huella_b>>
    /\ UNCHANGED fuera_de_hash

\* The second extraction writes one Cantidad, Precio or Importe in another
\* format of the same number, or pads one text field with whitespace
Reformatear ==
    /\ fase = "variar"
    /\ \/ \E k \in 1..Len(df_a.filas), c \in ColumnasNumericas \cap df_a.cols,
             t \in LiteralesNumericos :
            /\ EsNumero(df_a.filas[k][c])
            /\ t # df_a.filas[k][c]
            /\ NumIgual(ValorNum(t), ValorNum(df_a.filas[k][c]))
            /\ df_b' = ConCelda(df_a, k, c, t)
            /\ variante' = Variante("formato", k, c)
       \/ \E k \in 1..Len(df_a.filas), c \in CamposTextoLinea \cap df_a.cols :
            /\ df_a.filas[k][c] # None
            /\ df_b' = ConCelda(df_a, k, c, <<" ">> \o df_a.filas[k][c] \o <<" ", " ">>)
            /\ variante' = Variante("formato", k, c)
       \/ \E c \in CamposTextoOrden \cap df_a.cols :
            /\ df_a.filas # <<>>
            /\ df_a.filas[1][c] # None
            /\ df_b' = ConCelda(df_a, 0, c, <<" ">> \o df_a.filas[1][c] \o <<" ">>)
            /\ variante' = Variante("formato", 0, c)
    /\ fase' = "b"
    /\ UNCHANGED <<df_a, huella_a, huella_b>>
    /\ UNCHANGED fuera_de_hash

\* The second extraction reads another amount in one monetary or quantity
\* field: of one record, or the subtotal or total of the order
Modificar ==
    /\ fase = "variar"
    /\ \/ \E k \in 1..Len(df_a.filas), c \in CamposNumericosLinea \cap df_a.cols,
             t \in ValoresNuevos :
            /\ EsNumero(df_a.filas[k][c])
            /\ DifiereMasDeUnCentimo(ValorNum(t), ValorNum(df_a.filas[k][c]))
            /\ df_b' = ConCelda(df_a, k, c, t)
            /\ variante' = Variante("cambio", k, c)
       \/ \E c \in CamposNumericosOrden \cap df_a.cols, t \in ValoresNuevos :
            /\ df_a.filas # <<>>
            /\ EsNumero(df_a.filas[1][c])
            /\ DifiereMasDeUnCentimo(ValorNum(t), ValorNum(df_a.filas[1][c]))
            /\ df_b' = ConCelda(df_a, 0, c, t)
            /\ variante' = Variante("cambio", 0, c)
    /\ fase' = "b"
    /\ UNCHANGED <<df_a, huella_a, huella_b>>
    /\ UNCHANGED fuera_de_hash

\* The fingerprint of the second extraction
HashB ==
    /\ fase = "b"
    /\ huella_b' = CalcularHashOc(df_b)
    /\ fase' = "fin"
    /\ UNCHANGED <<df_a, df_b, huella_a, variante>>
    /\ UNCHANGED fuera_de_hash

NextHash == HashA \/ Permutar \/ Reformatear \/ Modificar \/ HashB

SpecHash == InitHash /\ [][NextHash]_vars

\* -------------------------------------------- claims on the fingerprint

\* The second fingerprint has been computed for a variant of the given kind
Comparada(tipo) == fase = "fin" /\ variante.tipo = tipo

\* C4: calcular_hash_oc is invariant under permutation of its input: two
\* record sets that are permutations of each other (the same metadata and
\* totals, the same records in another order) have the same fingerprint,
\* also when two records carry the same product code and differ in other
\* hashed fields.
C4_PermutacionMismaHuella == Comparada("permutacion") => huella_b = huella_a

\* C5: two record sets that differ only in the formatting of numerically
\* equal Cantidad, Precio or Importe values (thousands separators, trailing
\* zeros, surrounding whitespace) or in the surrounding whitespace of text
\* fields have the same fingerprint.
C5_FormatoMismaHuella == Comparada("formato") => huella_b = huella_a

\* C6: changing any monetary or quantity field (quantity, unit price,
\* discount %, tax %, extended amount, discount amount, tax amount, line
\* total, subtotal or total) by more than the 2-decimal tolerance changes
\* the string that is digested, and hence the fingerprint.
C6_TodoCambioCambiaHuella == Comparada("cambio") => huella_b # huella_a

\* The fields whose amounts enter the digested string
CamposDigeridos == {"Cantidad", "Precio", "Importe", "Total"}

\* C6 (amended): changing the Cantidad, Precio or Importe of a record, or the
\* Total of the order, by more than 0.01 changes the string that is digested,
\* and hence the fingerprint; changing a discount %, tax %, discount amount,
\* tax amount, line total or the subtotal leaves both as they were.
C6_CambioDigeridoCambiaHuella ==
    Comparada("cambio") =>
        /\ variante.col \in CamposDigeridos => huella_b # huella_a
        /\ variante.col \notin CamposDigeridos => huella_b = huella_a

\* An extended amount was changed and the fingerprints differ, and in the
\* same order a tax amount could be changed too
C6_Testigo ==
    /\ Comparada("cambio")
    /\ variante.col = "Importe"
    /\ "Monto Impuesto" \in df_a.cols
    /\ huella_b # huella_a

\* The record set of one line: order 1025 of ACME, 10 UN of SKU1
DfWidget == DfDe(MetaA, <<LineaWidget>>, Rango(ColumnasOrden))

\* The fingerprint the claim describes for a record set d
HuellaSegunSpec(d) ==
    IF d.es_none \/ d.filas = <<>> \/ d.cols = {}
    THEN <<"0", "0", "0", "0", "0", "0", "0", "0", "0", "0", "0", "0">>
    ELSE Md5Hex12(MetaStr(d) \o <<"\n">> \o ProductosStr(d))

\* Null, empty, or with at least one of the product columns
ConColumnaProducto(d) == DfVacio(d) \/ Rango(ColumnasProducto) \cap d.cols # {}

\* The string digested for DfWidget
ContenidoWidget ==
    <<"1", "0", "2", "5", "|", "0", "1", "/", "0", "2", "/", "2", "0", "2", "4", "|",
      "A", "C", "M", "E", "|", "4", "1", "1", "3", ".", "7", "2", "\n",
      "1", "0", ".", "0", "|", "S", "K", "U", "1", "|",
      "W", "i", "d", "g", "e", "t", " ", "A", "|", "4", "5", ".", "0", "|",
      "5", ".", "0", "|", "U", "N">>

\* C7: calcular_hash_oc returns '000000000000' for a null or empty record
\* set; for any other record set (one with a product column) it returns the
\* first 12 hexadecimal characters of the digest of the metadata string, a
\* newline and the item string: for the one-line order 1025, of
\* "1025|01/02/2024|ACME|4113.72\n10.0|SKU1|Widget A|45.0|5.0|UN".
C7_HuellaSentinelaODigest ==
    /\ (fase \in {"variar", "b", "fin"} /\ ConColumnaProducto(df_a))
          => huella_a = HuellaSegunSpec(df_a)
    /\ (fase \in {"variar", "b", "fin"} /\ df_a = DfWidget)
          => huella_a = Md5Hex12(ContenidoWidget)
    /\ (fase = "fin" /\ ConColumnaProducto(df_b))
          => huella_b = HuellaSegunSpec(df_b)

\* Both cases have happened: the fingerprint of a set of two records was
\* computed, and so was the one of its permutation
C7_Testigo ==
    /\ fase = "fin"
    /\ Len(df_a.filas) = 2
    /\ "Codigo Producto" \in df_a.cols
    /\ huella_a # <<"0", "0", "0", "0", "0", "0", "0", "0", "0", "0", "0", "0">>
    /\ huella_b = HuellaSegunSpec(df_b)

\* The empty record set got the sentinel
C7_TestigoVacio == fase = "variar" /\ df_a = DfEmpty /\ huella_a = <<"0", "0", "0", "0", "0", "0", "0", "0", "0", "0", "0", "0">>

\* ------------------------------------------------------- the page texts

\* The lines a page text is made of, with what each one prints: a labelled
\* amount (forma, monto) or something else
LineaTexto(t, forma, monto) == [texto |-> t, forma |-> forma, monto |-> monto]

LineasTexto ==
    {LineaTexto(<<"S", "u", "b", "t", "o", "t", "a", "l", " ", "3", ",", "4", "8", "6", ".", "2", "0">>, "subtotal", Dec(348620, 2)),
     LineaTexto(<<"I", "m", "p", "t", "o", ".", " ", "6", "2", "7", ".", "5", "2">>, "impuesto", Dec(62752, 2)),
     LineaTexto(<<"T", " ", "O", " ", "T", " ", "A", " ", "L", " ", " ", " ", "4", ",", "1", "1", "3", ".", "7", "2">>, "espaciado", Dec(411372, 2)),
     LineaTexto(<<"T", "O", "T", "A", "L", " ", "9", ".", "5", "0">>, "plano", Dec(950, 2)),
     LineaTexto(<<"t", " ", "o", " ", "t", " ", "a", " ", "l", " ", "4", "1", "1", "3", ".", "7", "2">>, "espaciado", Dec(411372, 2)),
     LineaTexto(<<"T", "o", "t", "a", "l", " ", " ", "1", ",", "2", "3", "4">>, "plano", Dec(1234, 0)),
     LineaTexto(<<"T", "o", "t", "a", "l", ":", " ", "5", ".", "0", "0">>, "otro", Cero),
     LineaTexto(<<"F", "e", "c", "h", "a", " ", "0", "1", "/", "0", "2", "/", "2", "0", "2", "4">>, "otro", Cero)}

\* The most lines in a page text
MaxLineas == 2

Textos ==
    {Join([k \in 1..Len(ls) |-> ls[k].texto], <<"\n">>) :
        ls \in SeqsHasta(LineasTexto, MaxLineas)}

\* A call of _extraer_totales_del_texto on a text
InitTotales ==
    /\ texto \in Textos
    /\ totales = <<>>
    /\ pagina = Pag(None, <<>>)
    /\ datos_generales = <<>>
    /\ df_pagina = <<>>
    /\ llamada = 0
    /\ primera = <<>>
    /\ columnas = <<>>
    /\ pc = "totales"
    /\ raw_data = <<>>
    /\ idx = 0
    /\ productos = <<>>
    /\ current_product = <<>>
    /\ df = <<>>
    /\ log = <<>>
    /\ HashInactivo
    /\ PdfInactivo
    /\ SheetInactivo

\* Line 356: the totals of the page text
ExtraerTotales ==
    /\ pc = "totales"
    /\ totales' = ExtraerTotalesDelTexto(texto)
    /\ pc' = "armar"
    /\ UNCHANGED <<raw_data, idx, productos, current_product, df, log>>
    /\ UNCHANGED <<texto, pagina, datos_generales, df_pagina, llamada, primera,
                   columnas>>
    /\ UNCHANGED <<hvars, dvars, svars>>

NextTotales == ExtraerTotales

SpecTotales == InitTotales /\ [][NextTotales]_vars

\* ------------------------------------------------- claims on the totals

\* The lines of the text that print a labelled amount of the given form
LineasDeForma(t, forma) ==
    LET ls == Split(t, "\n")
    IN  {k \in 1..Len(ls) :
            \E l \in LineasTexto : l.texto = ls[k] /\ l.forma = forma}

\* The amount printed in line k of the text
MontoImpreso(t, k) ==
    (CHOOSE l \in LineasTexto : l.texto = Split(t, "\n")[k]).monto

Primera(S) == CHOOSE k \in S : \A j \in S : k <= j

\* C8: _extraer_totales_del_texto returns total = 4113.72 for a text
\* containing 'T O T A L   4,113.72'; when the text holds a letter-spaced
\* 'T O T A L <amount>' the amount of the letter-spaced form is returned,
\* whether or not a plain 'TOTAL <amount>' is there too; the amount of the
\* plain form is returned only when the letter-spaced form is absent.
C8_TotalEspaciadoPreferido ==
    pc = "armar" =>
        LET esp == LineasDeForma(texto, "espaciado")
            pla == LineasDeForma(texto, "plano")
        IN  /\ esp # {} =>
                NumIgual(totales.total, MontoImpreso(texto, Primera(esp)))
            /\ (esp = {} /\ pla # {}) =>
                NumIgual(totales.total, MontoImpreso(texto, Primera(pla)))
            /\ (esp # {} /\ Split(texto, "\n")[Primera(esp)] = <<"T", " ", "O", " ", "T", " ", "A", " ", "L", " ", " ", " ", "4", ",", "1", "1", "3", ".", "7", "2">>) =>
                NumIgual(totales.total, Dec(411372, 2))

\* ------------------------------------------------------------ the pages

\* A full page text: number, date, supplier, address and the three totals
TextoCompleto ==
    <<"O", "R", "D", "E", "N", " ", "D", "E", " ", "C", "O", "M", "P", "R", "A", "\n", "N", "°", " ", "O", "r", "d", "e", "n", ":", " ", "1", "0", "2", "5", " ", "F", "e", "c", "h", "a", " ", "0", "1", "/", "0", "2", "/", "2", "0", "2", "4", "\n", "S", "o", "l", "i", "c", "i", "t", "a", "d", "o", " ", "a", ":", " ", "E", "n", "v", "i", "a", "r", " ", "a", ":", "\n", " ", "A", "C", "M", "E", " ", "S", "R", "L", " ", "S", "O", "L", "U", "C", "I", "O", "N", "E", "S", " ", "Q", "U", "I", "M", "I", "C", "A", "S", "\n", "A", "V", ".", " ", "D", "u", "a", "r", "t", "e", " ", "1", "2", " ", "C", "/", " ", "J", "a", "t", "f", "r", "e", "s", " ", "5", "\n", "S", "u", "b", "t", "o", "t", "a", "l", " ", "3", ",", "4", "8", "6", ".", "2", "0", "\n", "I", "m", "p", "t", "o", ".", " ", "6", "2", "7", ".", "5", "2", "\n", "T", " ", "O", " ", "T", " ", "A", " ", "L", " ", " ", " ", "4", ",", "1", "1", "3", ".", "7", "2">>

\* No order number; a date after a colon; the supplier label in the last line
TextoSinNumero ==
    <<"F", "e", "c", "h", "a", ":", " ", "0", "1", "/", "0", "2", "/", "2", "0", "2", "4", "\n", "C", "/", " ", "S", "o", "l", " ", "3", "\n", "T", "O", "T", "A", "L", " ", "9", ".", "5", "0", "\n", "S", "o", "l", "i", "c", "i", "t", "a", "d", "o", " ", "a", ":">>

\* Another spelling of the label, the supplier alone in its line
TextoOtro ==
    <<"n", "º", " ", "o", "r", "d", "e", "n", " ", "7", "7", "\n", "F", "e", "c", "h", "a", " ", " ", "1", "5", "/", "1", "2", "/", "2", "0", "2", "3", "\n", "S", "o", "l", "i", "c", "i", "t", "a", "d", "o", " ", "a", ":", "\n", "T", "u", "b", "o", "s", " ", "S", "A", "\n", "I", "m", "p", "t", "o", " ", "1", "8", ".", "0", "0">>

TextosPagina == {None, <<>>, TextoCompleto, TextoSinNumero, TextoOtro}

\* The rows above the product table: the supplier block and the currency
FilaSuplidor == <<<<"C", "ó", "d", "i", "g", "o", " ", "S", "u", "p", "l", "i", "d", "o", "r">>, None, None, <<"R", "N", "C">>>>

FilaDatosSuplidor ==
    <<<<" ", "S", "0", "0", "1", " ">>, None, None, <<"1", "0", "1", "-", "5">>, None, None, None, None, None, <<"3", "0", " ", "d", "i", "a", "s">>>>

FilaMoneda == <<<<"V", "e", "n", "d", "e", "d", "o", "r", " ", "M", "o", "n", "e", "d", "a">>, None>>

FilaDatosMoneda == <<None, None, None, <<"P", "e", "s", "o", "s", " ", "D", "O", "P">>>>

Bloques ==
    {<<>>,
     <<FilaSuplidor, FilaVacia, FilaDatosSuplidor>>,
     <<FilaMoneda, <<>>, FilaDatosMoneda>>,
     <<FilaSuplidor, FilaMoneda, FilaDatosSuplidor, FilaDatosMoneda>>}

\* The rows of the product table
Tablas ==
    {<<>>,
     <<FilaHeader>>,
     <<FilaWidget>>,
     <<FilaHeader, FilaWidget, FilaCont, FilaFin>>,
     <<FilaHeader, FilaWidget, FilaTubo>>,
     <<FilaHeader, FilaMala, FilaCorta, FilaFinTexto, FilaTubo>>}

\* Pages with a call of pdfplumber that raises
PaginasConFalla ==
    {Pagina(None, <<>>, <<>>, "extract_text"),
     Pagina(TextoCompleto, <<>>, <<>>, "find_table"),
     Pagina(TextoOtro, <<>>,
            <<<<FilaHeader, FilaWidget, FilaTubo>>, <<FilaHeader, FilaMala>>>>,
            "find_table"),
     Pagina(TextoCompleto, <<>>, <<>>, "extract_tables")}

Paginas ==
    {Pag(t, b \o f) : t \in TextosPagina, b \in Bloques, f \in Tablas}
        \cup PaginasConFalla

\* procesar_pagina is called on a page
InitPagina ==
    /\ pagina \in Paginas
    /\ pc = "pagina"
    /\ llamada = 1
    /\ primera = <<>>
    /\ columnas = <<>>
    /\ texto = <<>>
    /\ totales = <<>>
    /\ datos_generales = <<>>
    /\ df_pagina = <<>>
    /\ raw_data = <<>>
    /\ idx = 0
    /\ productos = <<>>
    /\ current_product = <<>>
    /\ df = <<>>
    /\ log = <<>>
    /\ HashInactivo
    /\ PdfInactivo
    /\ SheetInactivo

\* Lines 321-336 and 378-382: the text and the grid of the page; no
\* records without text, nor when a call raises out of the fallback
ExtraerTextoYTabla ==
    /\ pc = "pagina"
    /\ IF pagina.falla = "extract_text"
       THEN /\ log' = Append(log, "fallo-pagina")
            /\ df_pagina' = <<>>
            /\ columnas' = <<>>
            /\ pc' = "retorno"
            /\ UNCHANGED <<texto, raw_data>>
       ELSE IF ~Truthy(pagina.texto)
       THEN /\ texto' = pagina.texto
            /\ log' = Append(log, "no-texto")
            /\ df_pagina' = <<>>
            /\ columnas' = <<>>
            /\ pc' = "retorno"
            /\ UNCHANGED raw_data
       ELSE IF pagina.falla = "extract_tables"
       THEN /\ texto' = pagina.texto
            /\ log' = log \o <<"no-tabla", "fallo-pagina">>
            /\ df_pagina' = <<>>
            /\ columnas' = <<>>
            /\ pc' = "retorno"
            /\ UNCHANGED raw_data
       ELSE /\ texto' = pagina.texto
            /\ raw_data' = TablaCruda(pagina)
            /\ log' = IF pagina.falla = "find_table"
                      THEN Append(log, "no-tabla") ELSE log
            /\ pc' = "metadatos"
            /\ UNCHANGED <<df_pagina, columnas>>
    /\ UNCHANGED <<idx, productos, current_product, df>>
    /\ UNCHANGED <<totales, pagina, datos_generales, llamada, primera>>
    /\ UNCHANGED <<hvars, dvars, svars>>

\* Lines 339-344: the metadata of the page; then the product table
ExtraerMetadatos ==
    /\ pc = "metadatos"
    /\ datos_generales' = DatosGenerales(raw_data, texto)
    /\ pc' = "inicio"
    /\ UNCHANGED <<raw_data, idx, productos, current_product, df, log>>
    /\ UNCHANGED <<texto, totales, pagina, df_pagina, llamada, primera, columnas>>
    /\ UNCHANGED <<hvars, dvars, svars>>

\* Lines 348-353: no items, no records; else the metadata on every row
AgregarMetadatos ==
    /\ pc = "fin"
    /\ IF df = <<>>
       THEN /\ df_pagina' = <<>>
            /\ columnas' = <<>>
            /\ pc' = "retorno"
            /\ UNCHANGED df
       ELSE /\ df' = ConMetadatos(df, datos_generales)
            /\ columnas' = ColumnasConMetadatos
            /\ pc' = "totales"
            /\ UNCHANGED df_pagina
    /\ UNCHANGED <<raw_data, idx, productos, current_product, log>>
    /\ UNCHANGED <<texto, totales, pagina, datos_generales, llamada, primera>>
    /\ UNCHANGED <<hvars, dvars, svars>>

\* Lines 357-376: the totals on every row and the columns in order
ArmarRegistros ==
    /\ pc = "armar"
    /\ df' = Armar(df, totales)
    /\ df_pagina' = df'
    /\ columnas' = ColumnasArmadas(columnas)
    /\ pc' = "retorno"
    /\ UNCHANGED <<raw_data, idx, productos, current_product, log>>
    /\ UNCHANGED <<texto, totales, pagina, datos_generales, llamada, primera>>
    /\ UNCHANGED <<hvars, dvars, svars>>

\* The caller keeps the records and calls procesar_pagina on the page again
OtraLlamada ==
    /\ pc = "retorno"
    /\ llamada = 1
    /\ primera' = df_pagina
    /\ llamada' = 2
    /\ pc' = "pagina"
    /\ UNCHANGED tvars_sin_pc
    /\ UNCHANGED <<texto, totales, pagina, datos_generales, df_pagina, columnas>>
    /\ UNCHANGED <<hvars, dvars, svars>>

NextPagina ==
    \/ ExtraerTextoYTabla
    \/ ExtraerMetadatos
    \/ BuscarHeader
    \/ SiguienteFila
    \/ Cierre
    \/ AgregarMetadatos
    \/ ExtraerTotales
    \/ ArmarRegistros
    \/ OtraLlamada

SpecPagina == InitPagina /\ [][NextPagina]_vars

\* ---------------------------------------------------- claims on the page

\* C10: parsing the same RawPage (text, grid) twice yields identical
\* OrderRecord sequences: no step of the page parser changes the page, and
\* the records returned by the second call are those of the first.
C10_DosLlamadasMismosRegistros ==
    [][/\ pagina' = pagina
       /\ (llamada' = 2 /\ pc' = "retorno") => df_pagina' = primera']_vars

\* The second call has returned the two records of the first
C10_Testigo ==
    /\ llamada = 2
    /\ pc = "retorno"
    /\ Len(primera) = 2
    /\ df_pagina = primera
    /\ primera[1]["Numero Orden"] = <<"1", "0", "2", "5">>

\* ------------------------------------- claims on the end of the table

\* The loop's state after rows 1..n of `rows`, none of them ending the scan
RECURSIVE TrasFilas(_, _)
TrasFilas(rows, n) ==
    IF n = 0 THEN [productos |-> <<>>, current_product |-> <<>>, fin |-> FALSE]
    ELSE ProcesarFila([TrasFilas(rows, n - 1) EXCEPT !.fin = FALSE], rows[n])

\* The product codes of the item-start rows, in row order
RECURSIVE CodigosDe(_)
CodigosDe(rows) ==
    IF rows = <<>> THEN <<>>
    ELSE (IF EsFilaProducto(Head(rows)) THEN <<Codigo(Head(rows))>> ELSE <<>>)
            \o CodigosDe(Tail(rows))

\* C19: when the row scan reaches a terminator row the open item, if any, is
\* appended exactly once and the scan stops: the rows returned are those of
\* the grid cut after its first terminator row, one per item-start row
\* before it, and no row after it is scanned.
C19_FinDetieneElEscaneo ==
    LET rows == FilasTrasHeader(raw_data)
        fin == PrimerFin(rows)
        hasta == IF fin <= Len(rows) THEN fin ELSE Len(rows)
    IN  /\ (pc = "filas" /\ StartIdx(raw_data) # 0)
              => idx - 1 - StartIdx(raw_data) < fin
        /\ (pc \in {"cierre", "fin"} /\ StartIdx(raw_data) # 0)
              => idx - 1 - StartIdx(raw_data) <= hasta
        /\ (pc = "fin" /\ StartIdx(raw_data) # 0)
              => /\ df = CerrarTabla(TrasFilas(rows, hasta))
                 /\ [k \in 1..Len(df) |-> df[k]["Codigo Producto"]]
                        = CodigosDe(SubSeq(rows, 1, hasta))

\* A terminator row with an item open before it and an item-start row
\* after it: one record
C19_Testigo ==
    LET rows == FilasTrasHeader(raw_data)
    IN  /\ pc = "fin"
        /\ StartIdx(raw_data) # 0
        /\ Len(rows) = 3
        /\ EsFilaProducto(rows[1])
        /\ FilaTerminadora(rows[2])
        /\ EsFilaProducto(rows[3])
        /\ Len(df) = 1

\* C20: each row after the header is handled as exactly one of item-start,
\* terminator, continuation or ignorable; a terminator row is never also
\* treated as a continuation: scanning a terminator row closes the open
\* item with the description it had.
C20_FinNoEsContinuacion ==
    [][(/\ pc = "filas"
        /\ idx <= Len(raw_data)
        /\ FilaTerminadora(raw_data[idx])
        /\ current_product # <<>>)
          => productos' = productos \o current_product]_vars

\* --------------------------------------------------- claims on the records

\* The 21 fields of an OrderRecord, in the order of the specification
CamposOrderRecord ==
    <<"Numero Orden", "Fecha", "Proveedor", "Direccion Proveedor", "RNC",
      "Terminos", "Moneda", "Codigo Suplidor", "Codigo Producto",
      "Descripcion", "Cantidad", "Unidad", "Precio", "Descuento %",
      "Impuesto %", "Importe", "Monto Descuento", "Monto Impuesto",
      "Total por Producto", "Subtotal", "Total">>

\* procesar_pagina has returned records
Emitidos == pc = "retorno" /\ df_pagina # <<>>

\* C14: every OrderRecord a page returns has exactly the 21 fields Numero
\* Orden .. Total, in that order, whatever metadata and totals were found.
C14_VeintiunCamposEnOrden ==
    Emitidos =>
        /\ columnas = CamposOrderRecord
        /\ Len(columnas) = 21
        /\ \A k \in 1..Len(df_pagina) : DOMAIN df_pagina[k] = Rango(columnas)

\* Records of a page with neither order number, supplier block nor currency
C14_Testigo ==
    /\ Emitidos
    /\ df_pagina[1]["Numero Orden"] = None
    /\ df_pagina[1]["RNC"] = None
    /\ NumIgual(df_pagina[1]["Subtotal"], Cero)
    /\ columnas = CamposOrderRecord

\* C15: on every emitted OrderRecord, 'Monto Impuesto' is the line's own tax
\* amount, so Total por Producto equals round(Importe + Monto Impuesto -
\* Monto Descuento, 3) whatever order-level totals were found in the text.
C15_TotalPorProductoCuadra ==
    Emitidos =>
        \A k \in 1..Len(df_pagina) :
            LET r == df_pagina[k]
            IN  NumIgual(r["Total por Producto"],
                         Round(Sub(Add(r["Importe"], r["Monto Impuesto"]),
                                   r["Monto Descuento"]), Decimales))

\* C16: every OrderRecord carries a non-null order number: a page whose
\* text has no order-number match never produces records whose Numero
\* Orden is null.
C16_NumeroOrdenNoNulo ==
    Emitidos =>
        \A k \in 1..Len(df_pagina) : df_pagina[k]["Numero Orden"] # None

\* ------------------------------------------------------------ procesar_pdf

\* pd.concat(resultados, ignore_index=True): the rows of the frames, in order
RECURSIVE Concat(_)
Concat(frames) ==
    IF frames = <<>> THEN <<>> ELSE Head(frames) \o Concat(Tail(frames))

\* The pages of the documents: two with records, and one each without
\* text, without header, without items and with a grid extraction that raises
PagDosItems == Pag(TextoCompleto, <<FilaHeader, FilaWidget, FilaTubo>>)

PagUnItem == Pag(TextoOtro, <<FilaHeader, FilaWidget, FilaCont, FilaFin>>)

PagSinTexto == Pag(<<>>, <<FilaHeader, FilaWidget>>)

PagSinHeader == Pag(TextoSinNumero, <<FilaWidget, FilaTubo>>)

PagSinItems == Pag(TextoOtro, <<FilaHeader, FilaFin>>)

PagConFalla == Pagina(TextoOtro, <<>>, <<>>, "extract_tables")

PaginasPdf ==
    {PagDosItems, PagUnItem, PagSinTexto, PagSinHeader, PagSinItems,
     PagConFalla}

MaxPaginas == 3

\* A document: whether pdfplumber.open succeeds, and pdf.pages
Documentos ==
    {[abre |-> TRUE, pages |-> ps] : ps \in SeqsHasta(PaginasPdf, MaxPaginas)}
        \cup {[abre |-> FALSE, pages |-> <<>>]}

\* procesar_pdf is called on a document
InitPdf ==
    /\ documento \in Documentos
    /\ num_pagina = 0
    /\ resultados = <<>>
    /\ df_pdf = <<>>
    /\ pc = "abrir"
    /\ pagina = Pag(None, <<>>)
    /\ texto = <<>>
    /\ totales = <<>>
    /\ datos_generales = <<>>
    /\ df_pagina = <<>>
    /\ llamada = 0
    /\ primera = <<>>
    /\ columnas = <<>>
    /\ raw_data = <<>>
    /\ idx = 0
    /\ productos = <<>>
    /\ current_product = <<>>
    /\ df = <<>>
    /\ log = <<>>
    /\ HashInactivo
    /\ SheetInactivo

\* Mutant of AbrirPdf: the exception of pdfplumber.open is not caught
AbrirPdfSinExcept ==
    /\ pc = "abrir"
    /\ IF ~documento.abre
       THEN /\ pc' = "excepcion"
            /\ UNCHANGED <<log, df_pdf, num_pagina, pagina>>
       ELSE IF Len(documento.pages) = 0
       THEN /\ log' = Append(log, "pdf-vacio")
            /\ df_pdf' = <<>>
            /\ pc' = "fin-pdf"
            /\ UNCHANGED <<num_pagina, pagina>>
       ELSE /\ num_pagina' = 1
            /\ pagina' = documento.pages[1]
            /\ pc' = "pagina"
            /\ UNCHANGED <<log, df_pdf>>
    /\ resultados' = <<>>
    /\ UNCHANGED <<documento, raw_data, idx, productos, current_product, df>>
    /\ UNCHANGED <<texto, totales, datos_generales, df_pagina, llamada,
                   primera, columnas>>
    /\ UNCHANGED <<hvars, svars>>

\* Lines 437-451 and 467-471: the document is opened; an empty DataFrame
\* when that raises or there is no page, else the first page is processed
AbrirPdf ==
    /\ pc = "abrir"
    /\ IF ~documento.abre
       THEN /\ log' = Append(log, "error-pdf")
            /\ df_pdf' = <<>>
            /\ pc' = "fin-pdf"
            /\ UNCHANGED <<num_pagina, pagina>>
       ELSE IF Len(documento.pages) = 0
       THEN /\ log' = Append(log, "pdf-vacio")
            /\ df_pdf' = <<>>
            /\ pc' = "fin-pdf"
            /\ UNCHANGED <<num_pagina, pagina>>
       ELSE /\ num_pagina' = 1
            /\ pagina' = documento.pages[1]
            /\ pc' = "pagina"
            /\ UNCHANGED <<log, df_pdf>>
    /\ resultados' = <<>>
    /\ UNCHANGED <<documento, raw_data, idx, productos, current_product, df>>
    /\ UNCHANGED <<texto, totales, datos_generales, df_pagina, llamada,
                   primera, columnas>>
    /\ UNCHANGED <<hvars, svars>>

\* Mutant of RecogerPagina: the frame of a page goes before the others
RecogerPaginaAlFrente ==
    /\ pc = "retorno"
    /\ num_pagina > 0
    /\ resultados' = IF df_pagina # <<>> THEN <<df_pagina>> \o resultados
                     ELSE resultados
    /\ IF num_pagina < Len(documento.pages)
       THEN /\ num_pagina' = num_pagina + 1
            /\ pagina' = documento.pages[num_pagina + 1]
            /\ pc' = "pagina"
       ELSE /\ pc' = "concat"
            /\ UNCHANGED <<num_pagina, pagina>>
    /\ UNCHANGED <<documento, df_pdf>>
    /\ UNCHANGED tvars_sin_pc
    /\ UNCHANGED <<texto, totales, datos_generales, df_pagina, llamada,
                   primera, columnas>>
    /\ UNCHANGED <<hvars, svars>>

\* Mutant of RecogerPagina: a page without records discards the frames
\* collected so far
RecogerPaginaDescarta ==
    /\ pc = "retorno"
    /\ num_pagina > 0
    /\ resultados' = IF df_pagina # <<>> THEN Append(resultados, df_pagina)
                     ELSE <<>>
    /\ IF num_pagina < Len(documento.pages)
       THEN /\ num_pagina' = num_pagina + 1
            /\ pagina' = documento.pages[num_pagina + 1]
            /\ pc' = "pagina"
       ELSE /\ pc' = "concat"
            /\ UNCHANGED <<num_pagina, pagina>>
    /\ UNCHANGED <<documento, df_pdf>>
    /\ UNCHANGED tvars_sin_pc
    /\ UNCHANGED <<texto, totales, datos_generales, df_pagina, llamada,
                   primera, columnas>>
    /\ UNCHANGED <<hvars, svars>>

\* Lines 449-453: the frame procesar_pagina returned is kept when it is not
\* empty; then the next page, or the end of the loop
RecogerPagina ==
    /\ pc = "retorno"
    /\ num_pagina > 0
    /\ resultados' = IF df_pagina # <<>> THEN Append(resultados, df_pagina)
                     ELSE resultados
    /\ IF num_pagina < Len(documento.pages)
       THEN /\ num_pagina' = num_pagina + 1
            /\ pagina' = documento.pages[num_pagina + 1]
            /\ pc' = "pagina"
       ELSE /\ pc' = "concat"
            /\ UNCHANGED <<num_pagina, pagina>>
    /\ UNCHANGED <<documento, df_pdf>>
    /\ UNCHANGED tvars_sin_pc
    /\ UNCHANGED <<texto, totales, datos_generales, df_pagina, llamada,
                   primera, columnas>>
    /\ UNCHANGED <<hvars, svars>>

\* Lines 455-465: an empty DataFrame when no page gave records, else the
\* frames of the pages concatenated
Concatenar ==
    /\ pc = "concat"
    /\ IF resultados = <<>>
       THEN /\ log' = Append(log, "sin-datos")
            /\ df_pdf' = <<>>
       ELSE /\ df_pdf' = Concat(resultados)
            /\ log' = log
    /\ pc' = "fin-pdf"
    /\ UNCHANGED <<documento, num_pagina, resultados>>
    /\ UNCHANGED <<raw_data, idx, productos, current_product, df>>
    /\ UNCHANGED <<texto, totales, pagina, datos_generales, df_pagina, llamada,
                   primera, columnas>>
    /\ UNCHANGED <<hvars, svars>>

NextPdf ==
    \/ AbrirPdf
    \/ ExtraerTextoYTabla
    \/ ExtraerMetadatos
    \/ BuscarHeader
    \/ SiguienteFila
    \/ Cierre
    \/ AgregarMetadatos
    \/ ExtraerTotales
    \/ ArmarRegistros
    \/ RecogerPagina
    \/ Concatenar

SpecPdf == InitPdf /\ [][NextPdf]_vars

\* ------------------------------------------------ claims on the document

\* The LineItems of a grid: those of its rows after the header, up to the
\* first terminator row
ItemsDeGrid(g) ==
    LET rows == FilasTrasHeader(g)
        fin == PrimerFin(rows)
        hasta == IF fin <= Len(rows) THEN fin ELSE Len(rows)
    IN  IF StartIdx(g) = 0 THEN <<>> ELSE CerrarTabla(TrasFilas(rows, hasta))

\* A page whose processing fails: no text, a grid extraction that raises,
\* or no header row
PaginaFalla(p) ==
    \/ p.falla \in {"extract_text", "extract_tables"}
    \/ ~Truthy(p.texto)
    \/ StartIdx(TablaCruda(p)) = 0

\* The OrderRecords of a page taken alone
RegistrosDePagina(p) ==
    IF PaginaFalla(p) \/ ItemsDeGrid(TablaCruda(p)) = <<>> THEN <<>>
    ELSE Armar(ConMetadatos(ItemsDeGrid(TablaCruda(p)),
                            DatosGenerales(TablaCruda(p), p.texto)),
               ExtraerTotalesDelTexto(p.texto))

\* The records of the pages, each page's in grid order, in page order
RECURSIVE RegistrosDePaginas(_)
RegistrosDePaginas(ps) ==
    IF ps = <<>> THEN <<>>
    ELSE RegistrosDePagina(Head(ps)) \o RegistrosDePaginas(Tail(ps))

\* C11: the result of procesar_pdf is the concatenation, in page order, of
\* the OrderRecords each page yields, each page's records in grid order; a
\* page with zero items contributes no records and changes no other's.
C11_ConcatenacionEnOrdenDePagina ==
    /\ (pc = "pagina" /\ num_pagina > 0) =>
          Concat(resultados)
              = RegistrosDePaginas(SubSeq(documento.pages, 1, num_pagina - 1))
    /\ (pc = "fin-pdf" /\ documento.abre) =>
          df_pdf = RegistrosDePaginas(documento.pages)

\* Two records of page 1, none of page 2 (no items), one of page 3
C11_Testigo ==
    /\ pc = "fin-pdf"
    /\ documento.pages = <<PagDosItems, PagSinItems, PagUnItem>>
    /\ Len(df_pdf) = 3
    /\ df_pdf[1]["Codigo Producto"] = FilaWidget[2]
    /\ df_pdf[2]["Numero Orden"] = <<"1", "0", "2", "5">>
    /\ df_pdf[3]["Numero Orden"] = <<"7", "7">>

\* C12: procesar_pdf returns the empty result when the document has zero
\* pages or no page yields a record, a non-empty one when at least one page
\* yields a record, and never raises.
C12_VacioSiNingunaPaginaDaRegistros ==
    /\ pc # "excepcion"
    /\ (pc = "fin-pdf" /\ ~documento.abre) => df_pdf = <<>>
    /\ (pc = "fin-pdf" /\ documento.abre) =>
          (df_pdf = <<>> <=>
              \A k \in 1..Len(documento.pages) :
                  RegistrosDePagina(documento.pages[k]) = <<>>)

\* The document could not be opened: the empty result, an error logged
C12_Testigo ==
    /\ pc = "fin-pdf"
    /\ ~documento.abre
    /\ df_pdf = <<>>
    /\ log = <<"error-pdf">>

\* No page of a three-page document yields a record: the empty result
C12_TestigoSinRegistros ==
    /\ pc = "fin-pdf"
    /\ documento.pages = <<PagSinItems, PagSinTexto, PagSinHeader>>
    /\ df_pdf = <<>>

\* C13: a page whose processing fails contributes the empty sequence, and
\* the records of every other page appear in the result exactly as if the
\* failing page were absent from the document.
C13_PaginaFallidaComoAusente ==
    LET sanas == SelectSeq(documento.pages, LAMBDA p : ~PaginaFalla(p))
    IN  /\ (pc = "retorno" /\ num_pagina > 0 /\ PaginaFalla(pagina)) =>
              df_pagina = <<>>
        /\ (pc = "fin-pdf" /\ documento.abre) =>
              df_pdf = RegistrosDePaginas(sanas)

\* A page whose grid extraction raises between two pages with records
C13_Testigo ==
    /\ pc = "fin-pdf"
    /\ documento.pages = <<PagUnItem, PagConFalla, PagDosItems>>
    /\ Len(df_pdf) = 3
    /\ "fallo-pagina" \in Rango(log)
    /\ df_pdf[1]["Numero Orden"] = <<"7", "7">>
    /\ df_pdf[3]["Codigo Producto"] = FilaTubo[2]

\* ------------------------------------------------- sheets_uploader_oc.py
\*
\* The worksheet is [encabezados, filas]: encabezados is "vacia" (an empty
\* first row), "completos" (HEADERS_OC) or "faltan" (HEADERS_OC without
\* Hash_OC); filas are the data rows, each [numero, llamada]: the text of
\* its 'Numero Orden' cell as it was appended, and the call that appended it.
\* A frame handed to subir_a_hoja is its 'Numero Orden' column.

\* str(numero_orden).strip().upper()
NumeroLimpio(v) == Upper(Strip(Str(v)))

\* ya_existe_en_sheet(numero_orden); lee: _abrir_hoja and get_all_values
\* succeed (False is returned when they raise, lines 222-224)
YaExisteEnSheet(h, numero_orden, lee) ==
    IF ~lee THEN FALSE
    ELSE IF h.encabezados = "vacia" \/ h.filas = <<>> THEN FALSE
    ELSE \E k \in 1..Len(h.filas) :
            NumeroLimpio(h.filas[k].numero) = NumeroLimpio(numero_orden)

\* Lines 320-321: the rows whose order number is neither empty nor null
FilasValidas(col) ==
    SelectSeq(col, LAMBDA v : Strip(Str(v)) # <<>> /\ v # None)

\* The dict subir_a_hoja returns, its message as a tag
Resultado(ok, msg, n) == [success |-> ok, message |-> msg, rows_added |-> n]

\* subir_a_hoja(df), the call number id; fallo: "abrir" when _abrir_hoja or
\* row_values raises (lines 359-368), "lectura" when the read of
\* ya_existe_en_sheet raises, "no" when none does
SubirAHoja(h, col, fallo, id) ==
    IF fallo = "abrir"
    THEN [hoja |-> h, resultado |-> Resultado(FALSE, "excepcion", 0)]
    ELSE LET h1 == IF h.encabezados = "vacia"
                   THEN [h EXCEPT !.encabezados = "completos"] ELSE h
             validas == FilasValidas(col)
         IN  IF h1.encabezados = "faltan"
             THEN [hoja |-> h1, resultado |-> Resultado(FALSE, "headers", 0)]
             ELSE IF validas = <<>>
             THEN [hoja |-> h1, resultado |-> Resultado(FALSE, "sin-filas", 0)]
             ELSE IF YaExisteEnSheet(h1, Strip(Str(validas[1])), fallo = "no")
             THEN [hoja |-> h1, resultado |-> Resultado(FALSE, "duplicado", 0)]
             ELSE [hoja |-> [h1 EXCEPT !.filas = @ \o
                                [k \in 1..Len(validas) |->
                                    [numero |-> Str(validas[k]), llamada |-> id]]],
                   resultado |-> Resultado(TRUE, "ok", Len(validas))]

\* The order numbers of the frames handed to subir_a_hoja
NumerosSubida ==
    {None, <<>>, <<"1", "2">>, <<" ", "1", "2", " ">>, <<"a", "b">>, <<"A", "B">>}

MaxFilasSubida == 2

ColumnasSubida == SeqsHasta(NumerosSubida, MaxFilasSubida)

Fallos == {"no", "abrir", "lectura"}

MaxLlamadas == 3

\* A worksheet without data rows, before the first call
InitSheet ==
    /\ hoja \in {[encabezados |-> e, filas |-> <<>>] :
                    e \in {"vacia", "completos", "faltan"}}
    /\ n_llamada = 0
    /\ df_subida = <<>>
    /\ resultado = <<>>
    /\ lecturas_ok = TRUE
    /\ auto_uploaded = {}
    /\ notificaciones = <<>>
    /\ corrida = 0
    /\ ultima = <<>>
    /\ whatsapp = FALSE
    /\ sesiones = <<>>
    /\ TablaInactiva
    /\ PaginaInactiva
    /\ PdfInactivo
    /\ HashInactivo

\* One call of subir_a_hoja, from start to return
LlamarSubirAHoja ==
    /\ n_llamada < MaxLlamadas
    /\ \E col \in ColumnasSubida, fallo \in Fallos :
          \E r \in {SubirAHoja(hoja, col, fallo, n_llamada + 1)} :
              /\ hoja' = r.hoja
              /\ resultado' = r.resultado
              /\ df_subida' = col
              /\ lecturas_ok' = (lecturas_ok /\ fallo = "no")
    /\ n_llamada' = n_llamada + 1
    /\ UNCHANGED <<auto_uploaded, notificaciones, corrida, ultima, whatsapp>>
    /\ UNCHANGED <<tvars, hvars, pvars, dvars, sesiones>>

NextSheet == LlamarSubirAHoja

SpecSheet == InitSheet /\ [][NextSheet]_vars

\* ------------------------------------------------- claims on the upload

\* The calls that appended the rows of an order number
LlamadasDe(n) ==
    {hoja.filas[k].llamada :
        k \in {j \in 1..Len(hoja.filas) : NumeroLimpio(hoja.filas[j].numero) = n}}

\* C17: after any sequence of subir_a_hoja calls executed one at a time
\* with arbitrary record sets, every sheet read succeeding, no order number
\* has rows in the sheet appended by two different calls.
C17_UnaLlamadaPorNumeroDeOrden ==
    lecturas_ok =>
        \A k \in 1..Len(hoja.filas) :
            Cardinality(LlamadasDe(NumeroLimpio(hoja.filas[k].numero))) = 1

\* ------------------------------------------- main.py: procesar_y_subir_oc

\* What a run of procesar_y_subir_oc(df) does to the worksheet and the
\* session: col is the 'Numero Orden' column of df, lee whether the read of
\* the run's own ya_existe_en_sheet succeeds, fallo what fails inside
\* subir_a_hoja, pdf_ok whether exportar_orden_compra_a_pdf returns the
\* bytes, wa the flag WHATSAPP_OC_DISPONIBLE; enviada is the call of
\* enviar_oc_whatsapp the run makes, if any
ProcesarYSubirOc(h, subidas, col, lee, fallo, pdf_ok, id, wa) ==
    LET numero_orden == col[1]
        registrada == YaExisteEnSheet(h, numero_orden, TRUE)
        quieta == [hoja |-> h, auto_uploaded |-> subidas, enviada |-> <<>>,
                   resultado |-> <<>>,
                   ultima |-> [numero |-> numero_orden, lee |-> lee,
                               registrada |-> registrada, subio |-> FALSE,
                               exito |-> FALSE]]
    IN  IF ~Truthy(numero_orden) THEN [quieta EXCEPT !.ultima.registrada = FALSE]
        ELSE IF YaExisteEnSheet(h, numero_orden, lee) THEN quieta
        ELSE IF numero_orden \in subidas THEN quieta
        ELSE LET r == SubirAHoja(h, col, fallo, id)
                 ok == r.resultado.success
             IN  [hoja |-> r.hoja,
                  auto_uploaded |-> IF ok THEN subidas \cup {numero_orden}
                                    ELSE subidas,
                  enviada |-> IF ok /\ pdf_ok /\ wa
                              THEN <<[numero |-> numero_orden]>>
                              ELSE <<>>,
                  resultado |-> r.resultado,
                  ultima |-> [numero |-> numero_orden, lee |-> lee,
                              registrada |-> registrada, subio |-> TRUE,
                              exito |-> ok]]

\* The order numbers of the frames procesar_pdf hands to the session: the
\* digits of the label's match, or None
NumerosSesion == {None, <<"1", "2">>, <<"7", "7">>}

MaxFilasSesion == 2

ColumnasSesion == SeqsHasta(NumerosSesion, MaxFilasSesion) \ {<<>>}

MaxCorridas == 2

\* A new session: nothing uploaded in it; the worksheet may hold an order
InitSesion ==
    /\ hoja \in {[encabezados |-> "vacia", filas |-> <<>>],
                 [encabezados |-> "completos", filas |-> <<>>],
                 [encabezados |-> "completos",
                  filas |-> <<[numero |-> <<"1", "2">>, llamada |-> 0]>>]}
    /\ whatsapp \in BOOLEAN
    /\ auto_uploaded = {}
    /\ sesiones = <<>>
    /\ notificaciones = <<>>
    /\ corrida = 0
    /\ ultima = <<>>
    /\ n_llamada = 0
    /\ df_subida = <<>>
    /\ resultado = <<>>
    /\ lecturas_ok = TRUE
    /\ TablaInactiva
    /\ PaginaInactiva
    /\ PdfInactivo
    /\ HashInactivo

\* Mutant of Corrida: the order is not marked as uploaded in the session
CorridaSinMarcar ==
    /\ corrida < MaxCorridas
    /\ \E col \in ColumnasSesion, lee \in BOOLEAN, fallo \in Fallos,
          pdf_ok \in BOOLEAN :
          \E r \in {ProcesarYSubirOc(hoja, auto_uploaded, col, lee, fallo,
                                     pdf_ok, n_llamada + 1, whatsapp)} :
              /\ hoja' = r.hoja
              /\ auto_uploaded' = auto_uploaded
              /\ notificaciones' = notificaciones \o r.enviada
              /\ ultima' = r.ultima
              /\ df_subida' = col
              /\ resultado' = IF r.ultima.subio THEN r.resultado ELSE resultado
              /\ n_llamada' = IF r.ultima.subio THEN n_llamada + 1 ELSE n_llamada
              /\ lecturas_ok' = (lecturas_ok /\ lee
                                 /\ (r.ultima.subio => fallo = "no"))
    /\ corrida' = corrida + 1
    /\ UNCHANGED whatsapp
    /\ UNCHANGED <<tvars, hvars, pvars, dvars, sesiones>>

\* One run of procesar_y_subir_oc on the frame of the uploaded PDF
Corrida ==
    /\ corrida < MaxCorridas
    /\ \E col \in ColumnasSesion, lee \in BOOLEAN, fallo \in Fallos,
          pdf_ok \in BOOLEAN :
          \E r \in {ProcesarYSubirOc(hoja, auto_uploaded, col, lee, fallo,
                                     pdf_ok, n_llamada + 1, whatsapp)} :
              /\ hoja' = r.hoja
              /\ auto_uploaded' = r.auto_uploaded
              /\ notificaciones' = notificaciones \o r.enviada
              /\ ultima' = r.ultima
              /\ df_subida' = col
              /\ resultado' = IF r.ultima.subio THEN r.resultado ELSE resultado
              /\ n_llamada' = IF r.ultima.subio THEN n_llamada + 1 ELSE n_llamada
              /\ lecturas_ok' = (lecturas_ok /\ lee
                                 /\ (r.ultima.subio => fallo = "no"))
    /\ corrida' = corrida + 1
    /\ UNCHANGED whatsapp
    /\ UNCHANGED <<tvars, hvars, pvars, dvars, sesiones>>

NextSesion == Corrida

SpecSesion == InitSesion /\ [][NextSesion]_vars

\* ------------------------------------------------ claims on the session

\* The run just made called enviar_oc_whatsapp
Notifico == notificaciones' # notificaciones

\* A notification goes out only in a run whose subir_a_hoja succeeded for
\* the order of the run, and at most once per order number in the session
SoloTrasExitoYUnaVez ==
    /\ Notifico =>
          /\ Len(notificaciones') = Len(notificaciones) + 1
          /\ notificaciones'[Len(notificaciones')].numero = ultima'.numero
          /\ ultima'.subio
          /\ ultima'.exito
    /\ \A i, j \in 1..Len(notificaciones') :
          notificaciones'[i].numero = notificaciones'[j].numero => i = j

\* The run just made neither called subir_a_hoja nor notified
NiSubidaNiNotificacion ==
    /\ ~ultima'.subio
    /\ hoja' = hoja
    /\ ~Notifico

C21_ContinuacionExtiendeDescripcion ==
    [][(pc = "filas" /\ idx <= Len(raw_data)
            /\ ~EsFilaProducto(raw_data[idx])
            /\ ~FilaTerminadora(raw_data[idx]))
          => /\ productos' = productos
             /\ current_product' =
                  IF current_product # <<>> /\ ContinuacionSegunSpec(raw_data[idx])
                  THEN <<[current_product[1] EXCEPT !.descripcion =
                              @ \o <<" ">> \o TextoDesc(raw_data[idx])]>>
                  ELSE current_product]_vars

\* ------------------------------------------- claims on the item-start row

\* The item-start rows of a grid that the scan reaches
FilasProductoDe(raw) ==
    LET rows == FilasTrasHeader(raw)
    IN  SelectSeq(SubSeq(rows, 1, PrimerFin(rows) - 1), EsFilaProducto)

\* The row has a quantity cell with content
TieneCantidad(row) == Truthy(Celda(row, 5)) /\ Strip(Str(row[6])) # <<>>

\* C22: procesar_tabla_productos drops from its result every item that is
\* missing its product code, its description or its quantity, without
\* failing the page: no returned record has an empty code or description,
\* and there are no more records than item-start rows with a quantity cell.
C22_ItemsIncompletosDescartados ==
    (pc = "fin" /\ StartIdx(raw_data) # 0) =>
        /\ \A k \in 1..Len(df) :
              /\ df[k]["Codigo Producto"] # <<>>
              /\ df[k]["Descripcion"] # <<>>
        /\ Len(df) <= Len(SelectSeq(FilasProductoDe(raw_data), TieneCantidad))

\* ------------------------------------------------- the item-start rows
\* Grids of a header, one item-start row and a second product row; the
\* cells of the item-start row range over absent, blank, unparsable,
\* grouped and plain values.

CeldasCantidad == {None, <<>>, <<" ">>, <<"x">>, <<"1", ",", "0", "0", "0">>, <<"1", "0">>}

CeldasUnidad == {None, <<" ">>, <<"K", "G">>}

CeldasPrecio == {None, <<"a", "b", "c">>, <<"2", ".", "5", "0">>}

CeldasDescuento == {<<>>, <<"x">>, <<"1", "0", "%">>}

CeldasImpuesto == {None, <<"1", " ", "8">>, <<"1", "8", "%">>}

CeldasImporte == {None, <<>>, <<" ">>, <<"a", "b", "c">>, <<"4", "5", ".", "0", "0">>, <<"2", ",", "5", "0", "0", ".", "0", "0">>}

\* The item-start rows of 14 cells, and FilaWidget cut after 2, 6, 9, 11
\* and 13 cells
FilasDeProducto ==
    {Fila14(<<"1">>, <<"S", "K", "U", "1">>, <<"W", "i", "d", "g", "e", "t">>, c, u, p, d, i, m) :
        c \in CeldasCantidad, u \in CeldasUnidad, p \in CeldasPrecio,
        d \in CeldasDescuento, i \in CeldasImpuesto, m \in CeldasImporte}
      \cup {SubSeq(FilaWidget, 1, n) : n \in {2, 6, 9, 11, 13}}

\* procesar_tabla_productos is called on such a grid
InitFilas ==
    /\ raw_data \in {<<FilaHeader, f, FilaTubo>> : f \in FilasDeProducto}
    /\ pc = "inicio"
    /\ idx = 0
    /\ productos = <<>>
    /\ current_product = <<>>
    /\ df = <<>>
    /\ log = <<>>
    /\ HashInactivo
    /\ PdfInactivo
    /\ SheetInactivo
    /\ PaginaInactiva

SpecFilas == InitFilas /\ [][NextTabla]_vars

\* --------------------------------------- claims on the cells of an item

\* The cell k of the row is absent, null or blank
SinTexto(row, k) == ~Truthy(Celda(row, k)) \/ Strip(Str(row[k + 1])) = <<>>

\* The text of a numeric cell without thousands separators and percent sign
TextoNumero(row, k) == Strip(Quitar(Quitar(Str(row[k + 1]), ","), "%"))

\* What the specification gives for a numeric cell: 0.0 when it is absent,
\* blank or unparsable, else its number
ValorDeCelda(row, k) ==
    IF SinTexto(row, k) THEN Cero
    ELSE IF FloatOk(TextoNumero(row, k)) THEN Float(TextoNumero(row, k))
    ELSE Cero

\* C23: on an item-start row, a quantity, unit price, discount % or tax %
\* cell that is absent, blank or unparsable yields 0.0, an absent or blank
\* unit yields 'UN', thousands separators are stripped before parsing, and
\* in every such case the row still produces its LineItem and the scan
\* continues with the next row.
C23_CeldasConValorPorDefecto ==
    [][(pc = "filas" /\ idx <= Len(raw_data) /\ EsFilaProducto(raw_data[idx]))
          => /\ Len(current_product') = 1
             /\ current_product'[1].codigo = Codigo(raw_data[idx])
             /\ NumIgual(current_product'[1].cantidad, ValorDeCelda(raw_data[idx], 5))
             /\ NumIgual(current_product'[1].precio, ValorDeCelda(raw_data[idx], 8))
             /\ NumIgual(current_product'[1].descuento_pct, ValorDeCelda(raw_data[idx], 10))
             /\ NumIgual(current_product'[1].impuesto_pct, ValorDeCelda(raw_data[idx], 11))
             /\ current_product'[1].unidad =
                    IF SinTexto(raw_data[idx], 6) THEN <<"U", "N">>
                    ELSE Strip(Str(raw_data[idx][7]))
             /\ idx' = idx + 1
             /\ pc' = "filas"]_vars

\* An item-start row with an unparsable quantity, a blank unit, no price,
\* an unparsable discount and tax: its record with the defaults, and the
\* record of the next row
C23_Testigo ==
    /\ pc = "fin"
    /\ Len(raw_data) = 3
    /\ Len(raw_data[2]) = 14
    /\ raw_data[2][6] = <<"x">>
    /\ raw_data[2][7] = <<" ">>
    /\ raw_data[2][9] = None
    /\ raw_data[2][11] = <<"x">>
    /\ raw_data[2][12] = <<"1", " ", "8">>
    /\ Len(df) = 2
    /\ NumIgual(df[1]["Cantidad"], Cero)
    /\ NumIgual(df[1]["Precio"], Cero)
    /\ NumIgual(df[1]["Descuento %"], Cero)
    /\ NumIgual(df[1]["Impuesto %"], Cero)
    /\ df[1]["Unidad"] = <<"U", "N">>
    /\ df[2]["Codigo Producto"] = Codigo(FilaTubo)

\* The extended cell (column 13) is absent, null or the empty string
ImporteAusente(row) == Len(row) < 14 \/ row[14] = None \/ Str(row[14]) = <<>>

\* The text of the extended cell parses as a number once ',' is removed
ImporteParsea(row) ==
    LET s == Strip(Quitar(Str(row[14]), ","))
    IN  s # <<>> /\ FloatOk(s)

\* C29: the extended amount is 0.0 when the extended cell is absent (row
\* shorter than 14 cells) or empty, and it is quantity x price only when the
\* cell is non-empty but unparsable; with the amount 0.0 the discount amount,
\* the tax amount and the line total of the item are 0.0.
C29_ImporteAusenteEsCero ==
    /\ (pc = "filas" /\ idx > 2 /\ current_product # <<>>) =>
          LET row == raw_data[idx - 1]
              p == current_product[1]
          IN  EsFilaProducto(row) =>
                /\ ImporteAusente(row) => NumIgual(p.importe, Cero)
                /\ (~ImporteAusente(row) /\ ~ImporteParsea(row)) =>
                      NumIgual(p.importe, Mul(ValorDeCelda(row, 5), ValorDeCelda(row, 8)))
                /\ (~ImporteAusente(row) /\ ImporteParsea(row)) =>
                      NumIgual(p.importe, Float(Strip(Quitar(Str(row[14]), ","))))
    /\ pc = "fin" =>
          /\ Len(df) = Len(FilasProductoDe(raw_data))
          /\ \A k \in 1..Len(df) :
                ImporteAusente(FilasProductoDe(raw_data)[k]) =>
                    /\ NumIgual(df[k]["Importe"], Cero)
                    /\ NumIgual(df[k]["Monto Descuento"], Cero)
                    /\ NumIgual(df[k]["Monto Impuesto"], Cero)
                    /\ NumIgual(df[k]["Total por Producto"], Cero)

\* A row of 14 cells with quantity 10, price 2.50, 10% discount, 18% tax and
\* an empty extended cell: all four amounts of its record are 0.0
C29_Testigo ==
    /\ pc = "fin"
    /\ Len(df) = 2
    /\ Len(raw_data[2]) = 14
    /\ raw_data[2][14] = <<>>
    /\ NumIgual(df[1]["Cantidad"], Dec(10, 0))
    /\ NumIgual(df[1]["Precio"], Dec(25, 1))
    /\ NumIgual(df[1]["Descuento %"], Dec(10, 0))
    /\ NumIgual(df[1]["Impuesto %"], Dec(18, 0))
    /\ NumIgual(df[1]["Total por Producto"], Cero)

\* The same row with the unparsable extended cell 'abc': the amount is
\* 10 x 2.50
C29_TestigoCalculado ==
    /\ pc = "fin"
    /\ Len(df) = 2
    /\ Len(raw_data[2]) = 14
    /\ raw_data[2][14] = <<"a", "b", "c">>
    /\ raw_data[2][6] = <<"1", "0">>
    /\ raw_data[2][9] = <<"2", ".", "5", "0">>
    /\ NumIgual(df[1]["Importe"], Dec(25, 0))

\* --------------------------------------------- extraer_datos_generales
\* The function called on grids made of the supplier and currency label
\* rows and of data rows whose cells are absent, blank or filled.

CeldasMoneda ==
    {None, <<>>, <<" ">>, <<"U", "S", "D">>, <<"U", "S", "$">>, <<"M", "o", "n", "e", "d", "a", " ", "E", "x", "t", "r", "a", "n", "j", "e", "r", "a">>,
     <<"P", "e", "s", "o", "s", " ", "D", "O", "P">>, <<" ", "D", "O", "P", " ">>, <<"d", "o", "p">>, <<"D", "o", "l", "a", "r", "e", "s", " ", "u", "s", "d">>, <<"E", "U", "R">>}

\* The data rows of the currency: the cell at column 3, or a row too short
FilasDatosMonedaDe ==
    {<<None, None, None, c>> : c \in CeldasMoneda}
        \cup {<<None, None, None>>, <<>>}

CeldasCodigoSuplidor == {None, <<>>, <<" ">>, <<" ", "S", "0", "0", "1", " ">>}

CeldasRnc == {None, <<" ", " ">>, <<"1", "0", "1", "-", "5">>}

CeldasTerminos == {None, <<>>, <<" ">>, <<"3", "0", " ", "d", "i", "a", "s">>}

FilaDatos10(codigo, rnc, terminos) ==
    <<codigo, None, None, rnc, None, None, None, None, None, terminos>>

\* The data rows of the supplier: 10 cells, or FilaDatosSuplidor cut after
\* 0, 1, 3, 4 and 9 cells
FilasDatosSuplidorDe ==
    {FilaDatos10(c, r, t) : c \in CeldasCodigoSuplidor, r \in CeldasRnc,
                            t \in CeldasTerminos}
        \cup {SubSeq(FilaDatosSuplidor, 1, n) : n \in {0, 1, 3, 4, 9}}

\* Both blocks interleaved as on the order; a label row with no row two
\* below; no label row; two currency label rows
GridsMetadatos ==
    {<<FilaSuplidor, FilaMoneda, ds, dm>> :
        ds \in FilasDatosSuplidorDe, dm \in FilasDatosMonedaDe}
      \cup {<<>>, <<FilaSuplidor>>, <<FilaMoneda>>,
            <<FilaSuplidor, FilaMoneda>>,
            <<FilaSuplidor, FilaVacia>>, <<FilaMoneda, FilaVacia>>,
            <<FilaVacia, FilaVacia, FilaDatosSuplidor>>,
            <<FilaVacia, FilaVacia, FilaDatosMoneda>>}
      \cup {<<FilaMoneda, FilaMoneda, FilaDatosMoneda, dm>> :
                dm \in FilasDatosMonedaDe}

\* extraer_datos_generales is called on a grid and a text
InitMetadatos ==
    /\ raw_data \in GridsMetadatos
    /\ texto \in {<<>>, TextoCompleto}
    /\ pc = "datos"
    /\ datos_generales = <<>>
    /\ idx = 0
    /\ productos = <<>>
    /\ current_product = <<>>
    /\ df = <<>>
    /\ log = <<>>
    /\ totales = <<>>
    /\ pagina = Pag(None, <<>>)
    /\ df_pagina = <<>>
    /\ llamada = 0
    /\ primera = <<>>
    /\ columnas = <<>>
    /\ HashInactivo
    /\ PdfInactivo
    /\ SheetInactivo

\* The call returns datos
LlamarExtraerDatosGenerales ==
    /\ pc = "datos"
    /\ datos_generales' = ExtraerDatosGenerales(raw_data, texto)
    /\ pc' = "retorno-datos"
    /\ UNCHANGED <<raw_data, idx, productos, current_product, df, log>>
    /\ UNCHANGED <<texto, totales, pagina, df_pagina, llamada, primera, columnas>>
    /\ UNCHANGED <<hvars, dvars, svars>>

NextMetadatos == LlamarExtraerDatosGenerales

SpecMetadatos == InitMetadatos /\ [][NextMetadatos]_vars

\* ------------------------------------------------ claims on the metadata

\* The rows of the grid whose first cell contains the label and that have
\* a row two below
FilasConEtiqueta(tabla, etiqueta) ==
    {i \in 1..Len(tabla) :
        /\ tabla[i] # <<>>
        /\ Contiene(Str(tabla[i][1]), etiqueta)
        /\ i + 2 <= Len(tabla)}

\* The class of a currency cell as the specification words it: the
\* substrings as they are written
ClaseMonedaLiteral(c) ==
    IF c = None THEN None
    ELSE IF Contiene(c, <<"U", "S", "D">>) \/ Contiene(c, <<"U", "S">>) \/ Contiene(c, <<"E", "x", "t", "r", "a", "n", "j", "e", "r", "a">>)
    THEN <<"U", "S", "D">>
    ELSE IF Contiene(c, <<"D", "O", "P">>) THEN <<"D", "O", "P">>
    ELSE None

\* The same with 'USD', 'US' and 'DOP' compared without regard to case
ClaseMoneda(c) ==
    IF c = None THEN None
    ELSE IF Contiene(Upper(c), <<"U", "S", "D">>) \/ Contiene(Upper(c), <<"U", "S">>)
            \/ Contiene(c, <<"E", "x", "t", "r", "a", "n", "j", "e", "r", "a">>)
    THEN <<"U", "S", "D">>
    ELSE IF Contiene(Upper(c), <<"D", "O", "P">>) THEN <<"D", "O", "P">>
    ELSE None

\* The label rows of the currency whose cell two rows below, at column 3,
\* has the class USD or DOP under each reading
MonedasLiterales(tabla) ==
    {i \in FilasConEtiqueta(tabla, <<"M", "o", "n", "e", "d", "a">>) :
        ClaseMonedaLiteral(Celda(tabla[i + 2], 3)) # None}

MonedasReconocidas(tabla) ==
    {i \in FilasConEtiqueta(tabla, <<"M", "o", "n", "e", "d", "a">>) :
        ClaseMoneda(Celda(tabla[i + 2], 3)) # None}

Ultimo(S) == CHOOSE i \in S : \A j \in S : j <= i

\* C24: the currency returned is always USD or DOP: the class of the cell
\* at column 3 two rows below the row whose first cell contains 'Moneda'
\* (USD if it contains 'USD', 'US' or 'Extranjera', DOP if it otherwise
\* contains 'DOP'), and USD in every other case (no such row, cell out of
\* range, blank or unrecognised).
C24_MonedaUsdODop ==
    pc = "retorno-datos" =>
        /\ datos_generales["Moneda"] \in {<<"U", "S", "D">>, <<"D", "O", "P">>}
        /\ datos_generales["Moneda"] =
              IF MonedasLiterales(raw_data) = {} THEN <<"U", "S", "D">>
              ELSE ClaseMonedaLiteral(
                      Celda(raw_data[Ultimo(MonedasLiterales(raw_data)) + 2], 3))

\* C24 with the substrings 'USD', 'US' and 'DOP' looked for in the
\* upper-cased cell
C24_MonedaUsdODopSinCaja ==
    pc = "retorno-datos" =>
        /\ datos_generales["Moneda"] \in {<<"U", "S", "D">>, <<"D", "O", "P">>}
        /\ datos_generales["Moneda"] =
              IF MonedasReconocidas(raw_data) = {} THEN <<"U", "S", "D">>
              ELSE ClaseMoneda(
                      Celda(raw_data[Ultimo(MonedasReconocidas(raw_data)) + 2], 3))

\* The cell 'Pesos DOP' two rows below the 'Vendedor Moneda' row gives DOP
C24_Testigo ==
    /\ pc = "retorno-datos"
    /\ Len(raw_data) = 4
    /\ raw_data[2] = FilaMoneda
    /\ raw_data[1] = FilaSuplidor
    /\ Celda(raw_data[4], 3) = <<"P", "e", "s", "o", "s", " ", "D", "O", "P">>
    /\ datos_generales["Moneda"] = <<"D", "O", "P">>

\* An unrecognised cell gives the default
C24_TestigoPorDefecto ==
    /\ pc = "retorno-datos"
    /\ Len(raw_data) = 4
    /\ raw_data[2] = FilaMoneda
    /\ raw_data[1] = FilaSuplidor
    /\ Celda(raw_data[4], 3) = <<"E", "U", "R">>
    /\ datos_generales["Moneda"] = <<"U", "S", "D">>

\* The value the specification gives for the cell at column k of the row
\* two below the supplier label row: null when there is no such row, when
\* the column is out of range and when the cell is empty or whitespace only
ValorSuplidor(tabla, k) ==
    LET S == FilasConEtiqueta(tabla, <<"C", "ó", "d", "i", "g", "o", " ", "S", "u", "p", "l", "i", "d", "o", "r">>)
    IN  IF S = {} THEN None
        ELSE LET f == tabla[Ultimo(S) + 2]
             IN  IF Len(f) <= k THEN None
                 ELSE IF f[k + 1] = None \/ Strip(f[k + 1]) = <<>> THEN None
                 ELSE Strip(f[k + 1])

\* C25: vendor code, tax id and terms are read from columns 0, 3 and 9 of
\* the row two positions below the row whose first cell contains the
\* 'Código Suplidor' label; each is resolved independently of the other two
\* and is null whenever its row or column is out of range or its cell is
\* blank (empty or whitespace only).
C25_DatosSuplidorIndependientes ==
    pc = "retorno-datos" =>
        /\ datos_generales["Codigo Suplidor"] = ValorSuplidor(raw_data, 0)
        /\ datos_generales["RNC"] = ValorSuplidor(raw_data, 3)
        /\ datos_generales["Terminos"] = ValorSuplidor(raw_data, 9)

\* ----------------------------------- the grand total in the fingerprint
\* One-record sets whose order number, date and vendor are present or
\* missing and whose Total is missing or written in one of several formats.

TotalesLiterales ==
    {None, <<"1", "0", "0", "0">>, <<"1", ",", "0", "0", "0", ".", "0", "0">>, <<"1", "0", "0", "0", ".", "0">>, <<" ", "1", "0", "0", "0", " ">>, <<"4", "5", ".", "3">>,
     <<"4", "5", ".", "3", "0">>, <<"4", "1", "1", "3", ".", "7", "2">>}

DfsTotal ==
    {DfDe(Meta(n, f, p, <<"0", ".", "0">>, t), <<LineaWidget>>, ColsTodas) :
        n \in {None, <<"1", "0", "2", "5">>}, f \in {None, <<"0", "1", "/", "0", "2", "/", "2", "0", "2", "4">>},
        p \in {None, <<" ", "A", "C", "M", "E", " ">>}, t \in TotalesLiterales}

InitHashTotal ==
    /\ df_a \in DfsTotal
    /\ df_b = DfNone
    /\ huella_a = <<>>
    /\ huella_b = <<>>
    /\ variante = Variante("ninguna", 0, "")
    /\ fase = "a"
    /\ TablaInactiva
    /\ PaginaInactiva
    /\ PdfInactivo
    /\ SheetInactivo

\* The second record set writes the same Total in another format
ReformatearTotal ==
    /\ fase = "variar"
    /\ \E t \in TotalesLiterales \ {None} :
        /\ EsNumero(df_a.filas[1]["Total"])
        /\ t # df_a.filas[1]["Total"]
        /\ NumIgual(ValorNum(t), ValorNum(df_a.filas[1]["Total"]))
        /\ df_b' = ConCelda(df_a, 0, "Total", t)
        /\ variante' = Variante("formato-total", 0, "Total")
    /\ fase' = "b"
    /\ UNCHANGED <<df_a, huella_a, huella_b>>
    /\ UNCHANGED fuera_de_hash

NextHashTotal == HashA \/ ReformatearTotal \/ HashB

SpecHashTotal == InitHashTotal /\ [][NextHashTotal]_vars

\* A part of the metadata string as the specification gives it: the empty
\* string for a missing value, the number with 2 decimals for the Total
ParteSegunSpec(d, col) ==
    LET val == d.filas[1][col]
    IN  IF val = None THEN <<>>
        ELSE IF col = "Total" /\ EsNumero(val) THEN Format2f(ValorNum(val))
        ELSE Strip(val)

MetaSegunSpec(d) ==
    Join([k \in 1..Len(MetaCols) |-> ParteSegunSpec(d, MetaCols[k])], <<"|">>)

\* C26: in the canonical metadata string the grand total is rendered with
\* exactly 2 decimals for any numerically valued Total, so two record sets
\* whose Total differs only in formatting (1000, '1000', '1,000.00') have
\* the same fingerprint, and a missing order number, date, vendor or total
\* contributes the empty string.
C26_TotalConDosDecimales ==
    /\ fase \in {"variar", "b", "fin"} =>
          huella_a = Md5Hex12(MetaSegunSpec(df_a) \o <<"\n">> \o ProductosStr(df_a))
    /\ Comparada("formato-total") => huella_b = huella_a

\* ------------------------------- amounts with and without separators
\* Page texts whose lines print the subtotal, the tax and the total, the
\* total letter-spaced or plain, with and without thousands separators.

LineasMontos ==
    {LineaTexto(<<"S", "u", "b", "t", "o", "t", "a", "l", " ", "3", ",", "4", "8", "6", ".", "2", "0">>, "subtotal", Dec(348620, 2)),
     LineaTexto(<<"S", "u", "b", "t", "o", "t", "a", "l", " ", "4", ",", "1", "1", "3", ".", "7", "2">>, "subtotal", Dec(411372, 2)),
     LineaTexto(<<"S", "u", "b", "t", "o", "t", "a", "l", " ", "4", "1", "1", "3", ".", "7", "2">>, "subtotal", Dec(411372, 2)),
     LineaTexto(<<"I", "m", "p", "t", "o", ".", " ", "6", "2", "7", ".", "5", "2">>, "impuesto", Dec(62752, 2)),
     LineaTexto(<<"I", "m", "p", "t", "o", ".", " ", "1", ",", "2", "3", "4", ".", "5", "0">>, "impuesto", Dec(123450, 2)),
     LineaTexto(<<"I", "m", "p", "t", "o", ".", " ", "1", "2", "3", "4", ".", "5", "0">>, "impuesto", Dec(123450, 2)),
     LineaTexto(<<"T", "O", "T", "A", "L", " ", "4", ",", "1", "1", "3", ".", "7", "2">>, "plano", Dec(411372, 2)),
     LineaTexto(<<"T", "O", "T", "A", "L", " ", "4", "1", "1", "3", ".", "7", "2">>, "plano", Dec(411372, 2)),
     LineaTexto(<<"T", " ", "O", " ", "T", " ", "A", " ", "L", " ", "4", ",", "1", "1", "3", ".", "7", "2">>, "espaciado", Dec(411372, 2)),
     LineaTexto(<<"T", " ", "O", " ", "T", " ", "A", " ", "L", " ", "4", "1", "1", "3", ".", "7", "2">>, "espaciado", Dec(411372, 2)),
     LineaTexto(<<"F", "e", "c", "h", "a", " ", "0", "1", "/", "0", "2", "/", "2", "0", "2", "4">>, "otro", Cero)}

\* The most lines in such a text
MaxLineasMontos == 2

TextosMontos ==
    {Join([k \in 1..Len(ls) |-> ls[k].texto], <<"\n">>) :
        ls \in SeqsHasta(LineasMontos, MaxLineasMontos)}

\* A call of _extraer_totales_del_texto on such a text
InitMontos ==
    /\ texto \in TextosMontos
    /\ totales = <<>>
    /\ pagina = Pag(None, <<>>)
    /\ datos_generales = <<>>
    /\ df_pagina = <<>>
    /\ llamada = 0
    /\ primera = <<>>
    /\ columnas = <<>>
    /\ pc = "totales"
    /\ raw_data = <<>>
    /\ idx = 0
    /\ productos = <<>>
    /\ current_product = <<>>
    /\ df = <<>>
    /\ log = <<>>
    /\ HashInactivo
    /\ PdfInactivo
    /\ SheetInactivo

SpecMontos == InitMontos /\ [][NextTotales]_vars

\* The lines of the text whose label is of the given form
LineasConEtiqueta(t, forma) ==
    LET ls == Split(t, "\n")
    IN  {k \in 1..Len(ls) :
            \E l \in LineasMontos : l.texto = ls[k] /\ l.forma = forma}

\* The amount printed in line k of the text
MontoDeLinea(t, k) ==
    (CHOOSE l \in LineasMontos : l.texto = Split(t, "\n")[k]).monto

\* C27: the grand total is taken only from an amount whose label is TOTAL
\* (letter-spaced, else plain); the letters 'total' inside 'Subtotal' are
\* never the TOTAL label: a text with 'Subtotal 3,486.20' and no TOTAL label
\* yields total 0.0, and 'Subtotal 3,486.20' followed by a plain
\* 'TOTAL 4,113.72' yields total 4113.72.
C27_SubtotalNoEsTotal ==
    pc = "armar" =>
        LET esp == LineasConEtiqueta(texto, "espaciado")
            pla == LineasConEtiqueta(texto, "plano")
        IN  /\ (esp = {} /\ pla = {}) => NumIgual(totales.total, Cero)
            /\ texto = <<"S", "u", "b", "t", "o", "t", "a", "l", " ", "3", ",", "4", "8", "6", ".", "2", "0">> => NumIgual(totales.total, Cero)
            /\ texto = <<"S", "u", "b", "t", "o", "t", "a", "l", " ", "3", ",", "4", "8", "6", ".", "2", "0", "\n", "T", "O", "T", "A", "L", " ", "4", ",", "1", "1", "3", ".", "7", "2">> =>
                  NumIgual(totales.total, Dec(411372, 2))

\* The three amounts of two results are equal
MismosTotales(a, b) ==
    /\ NumIgual(a.subtotal, b.subtotal)
    /\ NumIgual(a.impuesto, b.impuesto)
    /\ NumIgual(a.total, b.total)

\* C28: the value returned for a labelled amount is the same whether the
\* amount is printed with or without thousands separators ('Subtotal
\* 4113.72' as 'Subtotal 4,113.72'), for the Subtotal, Impto and TOTAL
\* labels: the totals of a text are those of the text with its separators
\* removed.
C28_ConOSinSeparadores ==
    pc = "armar" =>
        /\ MismosTotales(totales, ExtraerTotalesDelTexto(Quitar(texto, ",")))
        /\ \A k \in LineasConEtiqueta(texto, "subtotal") :
              k = Primera(LineasConEtiqueta(texto, "subtotal")) =>
                  NumIgual(totales.subtotal, MontoDeLinea(texto, k))
        /\ \A k \in LineasConEtiqueta(texto, "impuesto") :
              k = Primera(LineasConEtiqueta(texto, "impuesto")) =>
                  NumIgual(totales.impuesto, MontoDeLinea(texto, k))

\* ------------------------------------ two sessions upload at once
\* Each browser session runs subir_a_hoja in its own thread on the one
\* worksheet.  A session is where its call is (pc), the 'Numero Orden'
\* column of its frame (col) and the dict returned (resultado).  The calls
\* on the worksheet are the steps: the header calls of lines 267-290 (they
\* write the same headers whatever the order, and are one step), the read of
\* ya_existe_en_sheet, and append_rows.

Sesion(col) == [pc |-> "inicio", col |-> col, resultado |-> <<>>]

\* The order numbers of the frames of the two sessions; every row of a
\* frame carries the order number of its page
ColumnasConcurrentes ==
    {<<<<"1", "2">>>>, <<<<"1", "2">>, <<"1", "2">>>>, <<<<" ", "1", "2", " ">>>>, <<<<"1", "3">>>>, <<None>>}

NumSesiones == 2

InitConcurrente ==
    /\ hoja \in {[encabezados |-> e, filas |-> f] :
                    e \in {"vacia", "completos", "faltan"},
                    f \in {<<>>, <<[numero |-> <<"1", "3">>, llamada |-> 0]>>}}
    /\ sesiones \in [1..NumSesiones -> {Sesion(c) : c \in ColumnasConcurrentes}]
    /\ lecturas_ok = TRUE
    /\ n_llamada = 0
    /\ df_subida = <<>>
    /\ resultado = <<>>
    /\ auto_uploaded = {}
    /\ notificaciones = <<>>
    /\ corrida = 0
    /\ ultima = <<>>
    /\ whatsapp = FALSE
    /\ TablaInactiva
    /\ PaginaInactiva
    /\ PdfInactivo
    /\ HashInactivo

\* The session returns r
Retorna(s, r) == [sesiones EXCEPT ![s].pc = "fin", ![s].resultado = r]

\* Lines 264-333: the worksheet is opened, its headers written when the
\* first row is empty and checked, the valid rows of the frame kept
Preparar ==
    \E s \in 1..NumSesiones :
        /\ sesiones[s].pc = "inicio"
        /\ \E abre \in BOOLEAN :
            IF ~abre
            THEN /\ sesiones' = Retorna(s, Resultado(FALSE, "excepcion", 0))
                 /\ UNCHANGED hoja
            ELSE /\ hoja' = IF hoja.encabezados = "vacia"
                            THEN [hoja EXCEPT !.encabezados = "completos"] ELSE hoja
                 /\ sesiones' =
                      IF hoja.encabezados = "faltan"
                      THEN Retorna(s, Resultado(FALSE, "headers", 0))
                      ELSE IF FilasValidas(sesiones[s].col) = <<>>
                      THEN Retorna(s, Resultado(FALSE, "sin-filas", 0))
                      ELSE [sesiones EXCEPT ![s].pc = "verificar"]
        /\ UNCHANGED <<n_llamada, df_subida, resultado, lecturas_ok, auto_uploaded,
                       notificaciones, corrida, ultima, whatsapp>>
        /\ UNCHANGED <<tvars, hvars, pvars, dvars>>

\* Lines 335-343: the duplicate check on the first valid row
Verificar ==
    \E s \in 1..NumSesiones :
        /\ sesiones[s].pc = "verificar"
        /\ \E lee \in BOOLEAN :
            /\ sesiones' =
                  IF YaExisteEnSheet(hoja, Strip(Str(FilasValidas(sesiones[s].col)[1])), lee)
                  THEN Retorna(s, Resultado(FALSE, "duplicado", 0))
                  ELSE [sesiones EXCEPT ![s].pc = "agregar"]
            /\ lecturas_ok' = (lecturas_ok /\ lee)
        /\ UNCHANGED <<hoja, n_llamada, df_subida, resultado, auto_uploaded,
                       notificaciones, corrida, ultima, whatsapp>>
        /\ UNCHANGED <<tvars, hvars, pvars, dvars>>

\* Lines 346-357 and 359-368: append_rows, which appends or raises
Agregar ==
    \E s \in 1..NumSesiones :
        /\ sesiones[s].pc = "agregar"
        /\ \E sube \in BOOLEAN :
            IF sube
            THEN /\ hoja' = [hoja EXCEPT !.filas = @ \o
                                [k \in 1..Len(FilasValidas(sesiones[s].col)) |->
                                    [numero |-> Str(FilasValidas(sesiones[s].col)[k]),
                                     llamada |-> s]]]
                 /\ sesiones' = Retorna(s, Resultado(TRUE, "ok",
                                             Len(FilasValidas(sesiones[s].col))))
            ELSE /\ sesiones' = Retorna(s, Resultado(FALSE, "excepcion", 0))
                 /\ UNCHANGED hoja
        /\ UNCHANGED <<n_llamada, df_subida, resultado, lecturas_ok, auto_uploaded,
                       notificaciones, corrida, ultima, whatsapp>>
        /\ UNCHANGED <<tvars, hvars, pvars, dvars>>

NextConcurrente == Preparar \/ Verificar \/ Agregar

SpecConcurrente == InitConcurrente /\ [][NextConcurrente]_vars

\* The order number of a session: that of its first valid row
NumeroDeSesion(s) ==
    IF FilasValidas(sesiones[s].col) = <<>> THEN None
    ELSE NumeroLimpio(FilasValidas(sesiones[s].col)[1])

\* The session has appended its rows
Subio(s) == sesiones[s].resultado # <<>> /\ sesiones[s].resultado.success

\* C30: when two sessions run subir_a_hoja concurrently for the same new
\* order number, under every interleaving of their duplicate checks and
\* their append_rows calls (every read of the sheet succeeding) at most one
\* of them appends rows, so the sheet never holds the order twice.
C30_UnaSolaSesionAgrega ==
    lecturas_ok =>
        \A s, t \in 1..NumSesiones :
            (s # t /\ NumeroDeSesion(s) # None
                   /\ NumeroDeSesion(s) = NumeroDeSesion(t)) =>
                /\ ~(Subio(s) /\ Subio(t))
                /\ Cardinality(LlamadasDe(NumeroDeSesion(s))) <= 1

====
